---------------------------- MODULE Spec2Model ----------------------------
(***************************************************************************)
(* Uniclaw: the agent CLI (src/skill/uniclaw/index.js) and the Roles       *)
(* Modifier configuration flow of the DApp (src/app/components/SafeInfo.tsx*)
(* and src/app/lib/roles.ts), as state machines.                           *)
(*                                                                         *)
(* Strings the code converts or parses (toLowerCase, toUpperCase,          *)
(* parseInt, parseFloat, isAddress) are sequences of one-character         *)
(* strings, so that the conversions are computed and not assumed.  The     *)
(* JavaScript values undefined and "" are both falsy and both written      *)
(* Undef.  Addresses are scaled from 40 hex digits to 2.                   *)
(***************************************************************************)
EXTENDS Integers, Sequences, FiniteSets, TLC

VARIABLES
  walletFile,   \* wallet.json : None, or Some(the record cmdInit saved)
  configFile,   \* config.json : None, or Some(the record cmdConfig saved)
  poolsFile,    \* pools.json  : None, or Some(the list cmdPool saved)
  last,         \* the CLI process that ran last: command, exit code, output, RPC calls, transactions
  argv,         \* parser harness: the arguments after the word swap
  call,         \* parser harness: what main() hands to cmdSwap
  ui,           \* React state of ConfigureRoles
  chain,        \* on-chain state of the Safe and of the Roles Modifier proxies
  storage,      \* browser localStorage: role members and target-scoped flags
  op,           \* the ConfigureRoles handlers and the detection that are in flight
  safeTxs,      \* the calls of the Safe transaction the UI handed to executeTransaction last
  txCall,       \* one call of deploySafe, deployRolesModifier or executeSwapWithRole and its receipt polling
  reads,        \* one fan-out of read-only calls: findPools, fetchBalances, fetchAllowances
  procs,        \* two pool commands running as concurrent processes
  route,        \* one request to /api/safe
  detect,       \* one call of detectRolesModifierState
  finder,       \* one call of findPools, seen by the data it reads and returns
  formatted,    \* one call of formatError
  predictor     \* the DeploySafe component: its inputs, its predictions in flight, existingSafe

vars == <<walletFile, configFile, poolsFile, last, argv, call, ui, chain, storage, op, safeTxs,
          txCall, reads, procs, route, detect, finder, formatted, predictor>>

\* the calls and the component that are modelled on their own
more == <<finder, formatted, predictor>>

NoMore == finder = <<>> /\ formatted = <<>> /\ predictor = <<>>

\* the state of the library calls and routes that are modelled one call at a time
libCalls == <<txCall, reads, procs, route, detect, more>>

NoCalls == txCall = <<>> /\ reads = <<>> /\ procs = <<>> /\ route = <<>> /\ detect = <<>> /\ NoMore

-----------------------------------------------------------------------------
(* Strings *)

Undef == <<>>

LowerAlpha == <<"a","b","c","d","e","f","g","h","i","j","k","l","m",
                "n","o","p","q","r","s","t","u","v","w","x","y","z">>
UpperAlpha == <<"A","B","C","D","E","F","G","H","I","J","K","L","M",
                "N","O","P","Q","R","S","T","U","V","W","X","Y","Z">>
Digits == <<"0","1","2","3","4","5","6","7","8","9">>

Chars == {LowerAlpha[i] : i \in DOMAIN LowerAlpha} \cup {UpperAlpha[i] : i \in DOMAIN UpperAlpha}
         \cup {Digits[i] : i \in DOMAIN Digits} \cup {".", "-", "+"}

Pos(c, alphabet) ==
  IF \E i \in DOMAIN alphabet : alphabet[i] = c
  THEN CHOOSE i \in DOMAIN alphabet : alphabet[i] = c
  ELSE 0

\* String.prototype.toLowerCase / toUpperCase, one character at a time
LowerChar == [c \in Chars |-> IF Pos(c, UpperAlpha) > 0 THEN LowerAlpha[Pos(c, UpperAlpha)] ELSE c]
UpperChar == [c \in Chars |-> IF Pos(c, LowerAlpha) > 0 THEN UpperAlpha[Pos(c, LowerAlpha)] ELSE c]

toLowerCase(s) == [i \in DOMAIN s |-> LowerChar[s[i]]]
toUpperCase(s) == [i \in DOMAIN s |-> UpperChar[s[i]]]

DigitSet == {Digits[i] : i \in DOMAIN Digits}
HexLetters == {"a", "b", "c", "d", "e", "f", "A", "B", "C", "D", "E", "F"}
LowerSet == {LowerAlpha[i] : i \in DOMAIN LowerAlpha}
UpperSet == {UpperAlpha[i] : i \in DOMAIN UpperAlpha}

IsDigit(c) == c \in DigitSet
DigitVal(c) == Pos(c, Digits) - 1
IsHexChar(c) == c \in DigitSet \/ c \in HexLetters
IsLowerLetter(c) == c \in LowerSet
IsUpperLetter(c) == c \in UpperSet

Truthy(s) == s # Undef

\* A value that may be absent (null, undefined, NaN) is a sequence of length 0 or 1.
None == <<>>
Some(v) == <<v>>
NaN == None

\* The digits s starts with from position i on.
RECURSIVE DigitRun(_, _)
DigitRun(s, i) ==
  IF i <= Len(s) /\ IsDigit(s[i]) THEN <<s[i]>> \o DigitRun(s, i + 1) ELSE <<>>

RECURSIVE DecimalValue(_)
DecimalValue(ds) ==
  IF ds = <<>> THEN 0 ELSE 10 * DecimalValue(SubSeq(ds, 1, Len(ds) - 1)) + DigitVal(ds[Len(ds)])

\* parseInt(s, 10): an optional sign, then the longest run of digits; NaN without one.
parseInt(s) ==
  LET signed == Len(s) >= 1 /\ s[1] \in {"-", "+"}
      ds == DigitRun(s, IF signed THEN 2 ELSE 1)
  IN IF ds = <<>> THEN NaN
     ELSE IF signed /\ s[1] = "-" THEN Some(0 - DecimalValue(ds)) ELSE Some(DecimalValue(ds))

\* isNaN(parseFloat(s)): parseFloat reads an optional sign, digits and an optional
\* fraction; it yields a number as soon as one digit is read.
parseFloatIsNaN(s) ==
  LET i == IF Len(s) >= 1 /\ s[1] \in {"-", "+"} THEN 2 ELSE 1
      j == IF i <= Len(s) /\ s[i] = "." THEN i + 1 ELSE i
  IN ~(j <= Len(s) /\ IsDigit(s[j]))

-----------------------------------------------------------------------------
(* Addresses: "0x" and two hex digits *)

\* EIP-55 casing of a lower-case address.  The real casing is decided by a
\* keccak hash; here the first hex letter stays lower and the later ones are raised.
ChecksumCase(s) ==
  LET low == toLowerCase(s)
      firstLetter == IF \E i \in 3..Len(low) : IsLowerLetter(low[i])
                     THEN CHOOSE i \in 3..Len(low) :
                            IsLowerLetter(low[i]) /\ \A j \in 3..(i-1) : ~IsLowerLetter(low[j])
                     ELSE 0
  IN [i \in DOMAIN low |-> IF i > firstLetter /\ firstLetter > 0 THEN UpperChar[low[i]] ELSE low[i]]

\* ethers.isAddress: 0x and hex digits of the right length; a mixed-case
\* address must carry its checksum casing.
isAddress(s) ==
  /\ Len(s) = 4
  /\ s[1] = "0" /\ s[2] = "x"
  /\ \A i \in 3..4 : IsHexChar(s[i])
  /\ LET mixed == (\E i \in 3..4 : IsLowerLetter(s[i])) /\ (\E i \in 3..4 : IsUpperLetter(s[i]))
     IN mixed => s = ChecksumCase(s)

aLow == <<"0","x","a","b">>
aUp  == <<"0","x","A","B">>
aBad == <<"0","x","A","b">>
cLow == <<"0","x","c","d">>
junk == <<"z","z">>

-----------------------------------------------------------------------------
(* Files: None when the file does not exist, Some(parsed JSON) when it does *)

\* loadJson: null when the file is missing
loadJson(file) == file

Keys == {"k1", "k2"}
\* the address of a freshly generated key: never one of the addresses the operator types
AddressOf(key) == IF key = "k1" THEN <<"0","x","e","1">> ELSE <<"0","x","e","2">>
MnemonicOf(key) == IF key = "k1" THEN "phrase1" ELSE "phrase2"

\* loadWallet: null without a file or without a privateKey
loadWallet ==
  LET data == loadJson(walletFile)
  IN IF data = None \/ "privateKey" \notin DOMAIN data[1] THEN None
     ELSE Some([address |-> AddressOf(data[1].privateKey), privateKey |-> data[1].privateKey])

EmptyObject == [k \in {} |-> Undef]

loadConfig == IF loadJson(configFile) = None THEN EmptyObject ELSE loadJson(configFile)[1]

loadPools == IF loadJson(poolsFile) = None THEN <<>> ELSE loadJson(poolsFile)[1]

\* obj.key in JavaScript: undefined when the key is absent
Field(obj, k) == IF k \in DOMAIN obj THEN obj[k] ELSE Undef

-----------------------------------------------------------------------------
(* Constants of the CLI *)

SWAP_ROUTER == "0x3bFA4769FB09eefC5a80d6E87c3B9C650f7Ae48E"
SWAP_ROLE_ID == 1

sWETH == <<"W","E","T","H">>
sUSDC == <<"U","S","D","C">>
sUNI  == <<"U","N","I">>
sweth == <<"w","e","t","h">>
sFOO  == <<"F","O","O">>

IsKnownToken(upper) == upper \in {sWETH, sUSDC, sUNI}

KNOWN_TOKENS(upper) ==
  CASE upper = sWETH -> [address |-> "0xfFf9976782d46CC05630D1f6eBAb18b2324d6B14", decimals |-> 18]
    [] upper = sUSDC -> [address |-> "0x1c7D4B196Cb0C7B01d743Fbc6116a902379C7238", decimals |-> 6]
    [] upper = sUNI  -> [address |-> "0x1f9840a85d5aF5bf1D1762F925BDADdC4201F984", decimals |-> 18]

\* mutant: the fee check lets a fee of 7 through
FEE_TIERS_Loose == {7, 100, 500, 3000, 10000}

FEE_TIERS == {100, 500, 3000, 10000}

feeLabel(feeTier) ==
  CASE feeTier = 100 -> "0.01%"
    [] feeTier = 500 -> "0.05%"
    [] feeTier = 3000 -> "0.3%"
    [] feeTier = 10000 -> "1%"
    [] OTHER -> "?%"

-----------------------------------------------------------------------------
(* One CLI process: the last message it printed (with the argument the message
   quotes), its exit status, the RPC calls it made and the transactions it
   handed to signer.sendTransaction *)

Result(cmd, exit, out, rpc, sent) ==
  [cmd |-> cmd, exit |-> exit, out |-> out, rpc |-> rpc, sent |-> sent]

\* process.exit(1) after console.error(out), with the RPC calls made so far
Exit1(cmd, out, rpc) ==
  /\ last' = Result(cmd, 1, out, rpc, <<>>)
  /\ UNCHANGED <<walletFile, configFile, poolsFile>>

\* main().catch: an exception that escapes a command
Fatal(cmd, rpc) == Exit1(cmd, <<"Fatal error">>, rpc)

\* the command returns and the process ends with status 0
Exit0(cmd, out, rpc, sent) == last' = Result(cmd, 0, out, rpc, sent)

RpcOutcomes == {"ok", "throws"}

-----------------------------------------------------------------------------
(* Commands *)

\* mutant: init creates a wallet whether or not one exists
cmdInitAlwaysCreates ==
  \E key \in Keys :
    /\ walletFile' = Some([address |-> AddressOf(key), privateKey |-> key,
                           mnemonic |-> MnemonicOf(key), createdAt |-> "now"])
    /\ Exit0("init", <<"New Ethereum wallet created!">>, <<>>, <<>>)
    /\ UNCHANGED <<configFile, poolsFile>>

cmdInit ==
  IF loadWallet # None
  THEN \E balance \in RpcOutcomes :
         IF balance = "ok"
         THEN /\ Exit0("init", <<"Wallet already exists.">>, <<"getBalance">>, <<>>)
              /\ UNCHANGED <<walletFile, configFile, poolsFile>>
         ELSE Fatal("init", <<"getBalance">>)
  ELSE \E key \in Keys :   \* ethers.Wallet.createRandom()
         /\ walletFile' = Some([address |-> AddressOf(key), privateKey |-> key,
                                mnemonic |-> MnemonicOf(key), createdAt |-> "now"])
         /\ Exit0("init", <<"New Ethereum wallet created!">>, <<>>, <<>>)
         /\ UNCHANGED <<configFile, poolsFile>>

\* mutant: a key the loaded config already has keeps its old value
SetConfigKeepsOld(config, safeAddress, rolesAddress) ==
  [k \in DOMAIN config \cup {"safeAddress", "rolesModifierAddress"} |->
     IF k \in DOMAIN config THEN config[k]
     ELSE IF k = "safeAddress" THEN safeAddress ELSE rolesAddress]

\* config.safeAddress = ...; config.rolesModifierAddress = ...: the loaded object with two keys set
SetConfig(config, safeAddress, rolesAddress) ==
  [k \in DOMAIN config \cup {"safeAddress", "rolesModifierAddress"} |->
     IF k = "safeAddress" THEN safeAddress
     ELSE IF k = "rolesModifierAddress" THEN rolesAddress
     ELSE config[k]]

cmdConfig(safeAddress, rolesAddress) ==
  IF ~Truthy(safeAddress) \/ ~Truthy(rolesAddress)
  THEN Exit1("config", <<"Usage: config">>, <<>>)
  ELSE IF ~isAddress(safeAddress)
  THEN Exit1("config", <<"Invalid Safe address:", safeAddress>>, <<>>)
  ELSE IF ~isAddress(rolesAddress)
  THEN Exit1("config", <<"Invalid Roles Modifier address:", rolesAddress>>, <<>>)
  ELSE /\ configFile' = Some(SetConfig(loadConfig, safeAddress, rolesAddress))
       /\ Exit0("config", <<"Configuration saved!", safeAddress, rolesAddress>>, <<>>, <<>>)
       /\ UNCHANGED <<walletFile, poolsFile>>

\* mutant: the duplicate check compares the addresses as typed
PoolExistsExactCase(pools, poolAddress) ==
  \E i \in DOMAIN pools : pools[i].poolAddress = poolAddress

\* pools.find((p) => p.poolAddress.toLowerCase() === poolAddress.toLowerCase())
PoolExists(pools, poolAddress) ==
  \E i \in DOMAIN pools : toLowerCase(pools[i].poolAddress) = toLowerCase(poolAddress)

\* KNOWN_TOKENS[upper], or the { address: "unknown", decimals: 18 } default
PoolToken(upper) ==
  IF IsKnownToken(upper) THEN KNOWN_TOKENS(upper) ELSE [address |-> "unknown", decimals |-> 18]

NewPool(poolAddress, upperA, upperB, feeTier) ==
  [poolAddress |-> poolAddress,
   tokenA |-> [symbol |-> upperA, address |-> PoolToken(upperA).address,
               decimals |-> PoolToken(upperA).decimals],
   tokenB |-> [symbol |-> upperB, address |-> PoolToken(upperB).address,
               decimals |-> PoolToken(upperB).decimals],
   fee |-> feeTier,
   feeLabel |-> feeLabel(feeTier),
   addedAt |-> "now"]

\* mutant: an omitted fee is stored as 500
PoolFeeTierDefault500(fee) == parseInt(IF Truthy(fee) THEN fee ELSE <<"5","0","0">>)

\* parseInt(fee || "3000", 10)
PoolFeeTier(fee) == parseInt(IF Truthy(fee) THEN fee ELSE <<"3","0","0","0">>)

cmdPool(poolAddress, symbolA, symbolB, fee) ==
  IF ~Truthy(poolAddress) \/ ~Truthy(symbolA) \/ ~Truthy(symbolB)
  THEN Exit1("pool", <<"Usage: pool">>, <<>>)
  ELSE IF ~isAddress(poolAddress)
  THEN Exit1("pool", <<"Invalid pool address:", poolAddress>>, <<>>)
  ELSE IF PoolFeeTier(fee) = NaN \/ PoolFeeTier(fee)[1] \notin FEE_TIERS
  THEN Exit1("pool", <<"Invalid fee tier">>, <<>>)
  ELSE LET pools == loadPools
       IN IF PoolExists(pools, poolAddress)
          THEN /\ Exit0("pool", <<"Pool already saved:", poolAddress>>, <<>>, <<>>)
               /\ UNCHANGED <<walletFile, configFile, poolsFile>>
          ELSE /\ poolsFile' = Some(Append(pools, NewPool(poolAddress, toUpperCase(symbolA),
                                                         toUpperCase(symbolB), PoolFeeTier(fee)[1])))
               /\ Exit0("pool", <<"Pool saved!", poolAddress>>, <<>>, <<>>)
               /\ UNCHANGED <<walletFile, configFile>>

cmdPools ==
  /\ Exit0("pools", IF Len(loadPools) = 0 THEN <<"No pools saved">> ELSE <<"Saved pools">>, <<>>, <<>>)
  /\ UNCHANGED <<walletFile, configFile, poolsFile>>

\* resolveToken: KNOWN_TOKENS first, then the first saved pool that names the symbol
RECURSIVE resolveInPools(_, _, _)
resolveInPools(pools, i, upper) ==
  IF i > Len(pools) THEN None
  ELSE IF toUpperCase(pools[i].tokenA.symbol) = upper
  THEN Some([address |-> pools[i].tokenA.address,
             decimals |-> IF pools[i].tokenA.decimals = 0 THEN 18 ELSE pools[i].tokenA.decimals])
  ELSE IF toUpperCase(pools[i].tokenB.symbol) = upper
  THEN Some([address |-> pools[i].tokenB.address,
             decimals |-> IF pools[i].tokenB.decimals = 0 THEN 18 ELSE pools[i].tokenB.decimals])
  ELSE resolveInPools(pools, i + 1, upper)

resolveToken(symbol) ==
  LET upper == toUpperCase(symbol)
  IN IF IsKnownToken(upper) THEN Some(KNOWN_TOKENS(upper))
     ELSE resolveInPools(loadPools, 1, upper)

\* pools.find(...) of cmdSwap: the first saved pool with the two symbols in either order
PairMatches(p, tokenInSymbol, tokenOutSymbol) ==
  LET a == toUpperCase(p.tokenA.symbol)
      b == toUpperCase(p.tokenB.symbol)
      inUp == toUpperCase(tokenInSymbol)
      outUp == toUpperCase(tokenOutSymbol)
  IN (a = inUp /\ b = outUp) \/ (a = outUp /\ b = inUp)

FindPairPool(pools, tokenInSymbol, tokenOutSymbol) ==
  IF \E i \in DOMAIN pools : PairMatches(pools[i], tokenInSymbol, tokenOutSymbol)
  THEN Some(pools[CHOOSE i \in DOMAIN pools :
                    /\ PairMatches(pools[i], tokenInSymbol, tokenOutSymbol)
                    /\ \A j \in 1..(i - 1) : ~PairMatches(pools[j], tokenInSymbol, tokenOutSymbol)])
  ELSE None

\* ethers.parseUnits(value, decimals): the text must be -?digits[.digits] with at least
\* one digit and no more fraction digits than decimals, or it throws (None).  The
\* amount is kept as its digits; 10^18 does not fit the model checker's integers.
parseUnits(value, decimals) ==
  LET neg == Len(value) >= 1 /\ value[1] = "-"
      start == IF neg THEN 2 ELSE 1
      whole == DigitRun(value, start)
      dot == start + Len(whole)
      hasDot == dot <= Len(value) /\ value[dot] = "."
      frac == IF hasDot THEN DigitRun(value, dot + 1) ELSE <<>>
      stop == dot + (IF hasDot THEN 1 + Len(frac) ELSE 0)
  IN IF stop = Len(value) + 1 /\ Len(whole) + Len(frac) > 0 /\ Len(frac) <= decimals
     THEN Some([negative |-> neg, whole |-> whole, frac |-> frac, decimals |-> decimals])
     ELSE None

\* mutant: the swap output goes to the agent wallet
swapRecipientWallet(config, wallet) == wallet.address

\* recipient: config.safeAddress
swapRecipient(config, wallet) == Field(config, "safeAddress")

\* routerIface.encodeFunctionData("exactInputSingle", [...])
swapCalldata(tokenIn, tokenOut, fee, config, wallet, amountIn) ==
  [fn |-> "exactInputSingle",
   tokenIn |-> tokenIn.address,
   tokenOut |-> tokenOut.address,
   fee |-> fee,
   recipient |-> swapRecipient(config, wallet),
   amountIn |-> amountIn,
   amountOutMinimum |-> 0,
   sqrtPriceLimitX96 |-> 0]

\* rolesIface.encodeFunctionData("execTransactionWithRole", [...])
execCalldata(data) ==
  [fn |-> "execTransactionWithRole",
   to |-> SWAP_ROUTER, value |-> 0, data |-> data,
   operation |-> 0, role |-> SWAP_ROLE_ID, shouldRevert |-> TRUE]

\* the request handed to signer.sendTransaction by cmdSwap
swapTx(tokenIn, tokenOut, fee, config, wallet, amountIn) ==
  [from |-> wallet.address,
   to |-> Field(config, "rolesModifierAddress"),
   data |-> execCalldata(swapCalldata(tokenIn, tokenOut, fee, config, wallet, amountIn)),
   value |-> 0]

\* uint24 fee and uint256 amountIn: the ABI encoder throws on a value out of range
Encodable(fee, amountIn) == fee >= 0 /\ fee < 16777216 /\ ~amountIn.negative

\* how signer.sendTransaction and tx.wait can end
SendOutcomes == {"rejected", "status 1", "status 0", "wait throws"}

\* the try/catch around sendTransaction and tx.wait: every branch logs and returns
swapSend(tx) ==
  \E outcome \in SendOutcomes :
    /\ UNCHANGED <<walletFile, configFile, poolsFile>>
    /\ CASE outcome = "rejected" ->
              Exit0("swap", <<"Swap failed">>, <<"getBalance", "sendTransaction">>, <<tx>>)
         [] outcome = "status 1" ->
              Exit0("swap", <<"Swap succeeded!">>, <<"getBalance", "sendTransaction", "wait">>, <<tx>>)
         [] outcome = "status 0" ->
              Exit0("swap", <<"Swap reverted on-chain.">>, <<"getBalance", "sendTransaction", "wait">>, <<tx>>)
         [] outcome = "wait throws" ->
              Exit0("swap", <<"Swap failed">>, <<"getBalance", "sendTransaction", "wait">>, <<tx>>)

\* parseInt(feeStr || "0", 10), then the saved pool's fee when that is 0 or NaN
swapFee(tokenInSymbol, tokenOutSymbol, feeStr) ==
  LET given == parseInt(IF Truthy(feeStr) THEN feeStr ELSE <<"0">>)
      match == FindPairPool(loadPools, tokenInSymbol, tokenOutSymbol)
  IN IF given # NaN /\ given[1] # 0 THEN given
     ELSE IF match # None THEN Some(match[1].fee)
     ELSE None

\* mutant: swap does not look at the config before going on
swapPrerequisiteWalletOnly ==
  IF loadWallet = None THEN <<"No wallet found">> ELSE None

\* the wallet and config checks of cmdSwap: the message it exits with, or None
swapPrerequisite ==
  IF loadWallet = None THEN <<"No wallet found">>
  ELSE IF ~Truthy(Field(loadConfig, "safeAddress")) \/ ~Truthy(Field(loadConfig, "rolesModifierAddress"))
  THEN <<"Missing configuration">>
  ELSE None

Balances == {0, 1, 100}

\* mutant: the swap goes on with an empty wallet
cmdSwapNoGasCheck(tokenInSymbol, tokenOutSymbol, amountStr, feeStr, ethBal) ==
  IF ~Truthy(tokenInSymbol) \/ ~Truthy(tokenOutSymbol) \/ ~Truthy(amountStr)
  THEN Exit1("swap", <<"Usage: swap">>, <<>>)
  ELSE IF swapPrerequisite # None
  THEN Exit1("swap", swapPrerequisite, <<>>)
  ELSE LET wallet == loadWallet[1]
           config == loadConfig
           tokenIn == resolveToken(tokenInSymbol)
           tokenOut == resolveToken(tokenOutSymbol)
           fee == swapFee(tokenInSymbol, tokenOutSymbol, feeStr)
       IN IF tokenIn = None \/ tokenIn[1].address = "unknown"
          THEN Exit1("swap", <<"Unknown token:", tokenInSymbol>>, <<>>)
          ELSE IF tokenOut = None \/ tokenOut[1].address = "unknown"
          THEN Exit1("swap", <<"Unknown token:", tokenOutSymbol>>, <<>>)
          ELSE IF fee = None
          THEN Exit1("swap", <<"No pool found for this pair">>, <<>>)
          ELSE LET amountIn == parseUnits(amountStr, tokenIn[1].decimals)
               IN IF amountIn = None
                  THEN Fatal("swap", <<>>)
                  ELSE IF ethBal = -1
                  THEN Fatal("swap", <<"getBalance">>)
                  ELSE IF ~Encodable(fee[1], amountIn[1])
                  THEN Fatal("swap", <<"getBalance">>)
                  ELSE swapSend(swapTx(tokenIn[1], tokenOut[1], fee[1], config, wallet, amountIn[1]))

\* cmdSwap when provider.getBalance answers ethBal (-1: it throws)
cmdSwapWith(tokenInSymbol, tokenOutSymbol, amountStr, feeStr, ethBal) ==
  IF ~Truthy(tokenInSymbol) \/ ~Truthy(tokenOutSymbol) \/ ~Truthy(amountStr)
  THEN Exit1("swap", <<"Usage: swap">>, <<>>)
  ELSE IF swapPrerequisite # None
  THEN Exit1("swap", swapPrerequisite, <<>>)
  ELSE LET wallet == loadWallet[1]
           config == loadConfig
           tokenIn == resolveToken(tokenInSymbol)
           tokenOut == resolveToken(tokenOutSymbol)
           fee == swapFee(tokenInSymbol, tokenOutSymbol, feeStr)
       IN IF tokenIn = None \/ tokenIn[1].address = "unknown"
          THEN Exit1("swap", <<"Unknown token:", tokenInSymbol>>, <<>>)
          ELSE IF tokenOut = None \/ tokenOut[1].address = "unknown"
          THEN Exit1("swap", <<"Unknown token:", tokenOutSymbol>>, <<>>)
          ELSE IF fee = None
          THEN Exit1("swap", <<"No pool found for this pair">>, <<>>)
          ELSE LET amountIn == parseUnits(amountStr, tokenIn[1].decimals)
               IN IF amountIn = None
                  THEN Fatal("swap", <<>>)
                  ELSE IF ethBal = -1
                  THEN Fatal("swap", <<"getBalance">>)
                  ELSE IF ethBal = 0
                  THEN Exit1("swap", <<"No ETH for gas">>, <<"getBalance">>)
                  ELSE IF ~Encodable(fee[1], amountIn[1])
                  THEN Fatal("swap", <<"getBalance">>)
                  ELSE swapSend(swapTx(tokenIn[1], tokenOut[1], fee[1], config, wallet, amountIn[1]))

cmdSwap(tokenInSymbol, tokenOutSymbol, amountStr, feeStr) ==
  \E ethBal \in Balances \cup {-1} : cmdSwapWith(tokenInSymbol, tokenOutSymbol, amountStr, feeStr, ethBal)

cmdStatus ==
  /\ UNCHANGED <<walletFile, configFile, poolsFile>>
  /\ \E balance \in RpcOutcomes :
       LET walletRpc == IF loadWallet # None THEN <<"getBalance">> ELSE <<>>
           safeRpc == IF Truthy(Field(loadConfig, "safeAddress"))
                      THEN <<"balanceOf", "balanceOf", "balanceOf">> ELSE <<>>
       IN IF loadWallet # None /\ balance = "throws"
          THEN last' = Result("status", 1, <<"Fatal error">>, walletRpc, <<>>)
          ELSE Exit0("status", <<"Uniclaw Status">>, walletRpc \o safeRpc, <<>>)

cmdBalance ==
  IF loadWallet = None
  THEN Exit1("balance", <<"No wallet found">>, <<>>)
  ELSE \E balance \in Balances \cup {-1} :
         IF balance = -1
         THEN Fatal("balance", <<"getBalance">>)
         ELSE /\ Exit0("balance", IF balance = 0 THEN <<"No ETH!">> ELSE <<"ETH Balance">>, <<"getBalance">>, <<>>)
              /\ UNCHANGED <<walletFile, configFile, poolsFile>>

\* ethers.parseEther, in hundredths of an ether: whole * 100 + the two fraction digits
parseEther(value) ==
  LET parsed == parseUnits(value, 2)
      frac2 == IF parsed = None THEN <<>>
               ELSE parsed[1].frac \o SubSeq(<<"0", "0">>, 1, 2 - Len(parsed[1].frac))
      magnitude == IF parsed = None THEN 0
                   ELSE 100 * DecimalValue(parsed[1].whole) + DecimalValue(frac2)
  IN IF parsed = None THEN None
     ELSE Some(IF parsed[1].negative THEN 0 - magnitude ELSE magnitude)

transferTx(wallet, toAddress, amount) == [from |-> wallet.address, to |-> toAddress, value |-> amount]

transferSend(tx) ==
  \E outcome \in SendOutcomes :
    /\ UNCHANGED <<walletFile, configFile, poolsFile>>
    /\ outcome = "status 1" => tx.value >= 0   \* a negative value never leaves the signer
    /\ outcome = "status 0" => tx.value >= 0
    /\ outcome = "wait throws" => tx.value >= 0
    /\ CASE outcome = "rejected" ->
              Exit0("transfer", <<"Transfer failed">>, <<"getBalance", "sendTransaction">>, <<tx>>)
         [] outcome = "status 1" ->
              Exit0("transfer", <<"Transfer succeeded!">>,
                    <<"getBalance", "sendTransaction", "wait", "getBalance">>, <<tx>>)
         [] outcome = "status 0" ->
              Exit0("transfer", <<"Transfer reverted.">>, <<"getBalance", "sendTransaction", "wait">>, <<tx>>)
         [] outcome = "wait throws" ->
              Exit0("transfer", <<"Transfer failed">>, <<"getBalance", "sendTransaction", "wait">>, <<tx>>)

cmdTransfer(toAddress, amountStr) ==
  IF ~Truthy(toAddress) \/ ~Truthy(amountStr)
  THEN Exit1("transfer", <<"Usage: transfer">>, <<>>)
  ELSE IF ~isAddress(toAddress)
  THEN Exit1("transfer", <<"Invalid recipient address:", toAddress>>, <<>>)
  ELSE IF loadWallet = None
  THEN Exit1("transfer", <<"No wallet found">>, <<>>)
  ELSE LET amount == parseEther(amountStr)
       IN IF amount = None
          THEN Fatal("transfer", <<>>)
          ELSE \E balance \in Balances \cup {-1} :
                 IF balance = -1
                 THEN Fatal("transfer", <<"getBalance">>)
                 ELSE IF balance < amount[1]
                 THEN Exit1("transfer", <<"Insufficient balance">>, <<"getBalance">>)
                 ELSE transferSend(transferTx(loadWallet[1], toAddress, amount[1]))

-----------------------------------------------------------------------------
(* The CLI router *)

wInit     == <<"i","n","i","t">>
wConfig   == <<"c","o","n","f","i","g">>
wPool     == <<"p","o","o","l">>
wPools    == <<"p","o","o","l","s">>
wList     == <<"l","i","s","t">>
wSwap     == <<"s","w","a","p">>
wBalance  == <<"b","a","l","a","n","c","e">>
wTransfer == <<"t","r","a","n","s","f","e","r">>
wStatus   == <<"s","t","a","t","u","s">>
wTo       == <<"t","o">>
wTO       == <<"T","O">>

\* args[i] of JavaScript (0-based): undefined past the end
Arg(args, i) == IF i + 1 <= Len(args) THEN args[i + 1] ELSE Undef

\* args.slice(1)
Slice1(args) == SubSeq(args, 2, Len(args))

\* lower.indexOf("to"), 0-based, -1 when absent
IndexOfTo(args) ==
  IF \E i \in DOMAIN args : toLowerCase(args[i]) = wTo
  THEN (CHOOSE i \in DOMAIN args :
          /\ toLowerCase(args[i]) = wTo
          /\ \A j \in 1..(i - 1) : toLowerCase(args[j]) # wTo) - 1
  ELSE -1

parseNaturalSwap(args) ==
  LET toIdx == IndexOfTo(args)
      before == SubSeq(args, 1, toIdx)
      after == SubSeq(args, toIdx + 2, Len(args))
  IN IF toIdx < 0 THEN None
     ELSE IF Len(before) < 2 \/ Len(after) < 1 THEN None
     ELSE IF ~parseFloatIsNaN(before[1])
     THEN Some([tokenIn |-> before[2], tokenOut |-> after[1], amount |-> before[1], fee |-> Arg(after, 1)])
     ELSE Some([tokenIn |-> before[1], tokenOut |-> after[1], amount |-> before[2], fee |-> Arg(after, 1)])

\* case "swap" of main: the four arguments cmdSwap is called with
swapArgs(args) ==
  LET natural == parseNaturalSwap(Slice1(args))
  IN IF natural # None
     THEN <<natural[1].tokenIn, natural[1].tokenOut, natural[1].amount, natural[1].fee>>
     ELSE <<Arg(args, 1), Arg(args, 2), Arg(args, 3), Arg(args, 4)>>

usage ==
  /\ Exit0("help", <<"Commands:">>, <<>>, <<>>)
  /\ UNCHANGED <<walletFile, configFile, poolsFile>>

main(args) ==
  LET command == toLowerCase(Arg(args, 0))
  IN CASE command = wInit -> cmdInit
       [] command = wConfig -> cmdConfig(Arg(args, 1), Arg(args, 2))
       [] command = wPool ->
            IF Truthy(Arg(args, 1)) /\ toLowerCase(Arg(args, 1)) = wList
            THEN cmdPools
            ELSE cmdPool(Arg(args, 1), Arg(args, 2), Arg(args, 3), Arg(args, 4))
       [] command = wPools -> cmdPools
       [] command = wSwap ->
            cmdSwap(swapArgs(args)[1], swapArgs(args)[2], swapArgs(args)[3], swapArgs(args)[4])
       [] command = wBalance -> cmdBalance
       [] command = wTransfer -> cmdTransfer(Arg(args, 1), Arg(args, 2))
       [] command = wStatus -> cmdStatus
       [] OTHER -> usage

-----------------------------------------------------------------------------
(* The command lines the operator types *)

\* config <SAFE> <ROLES>
ConfigArgLists ==
  {<<aLow, cLow>>, <<cLow, aLow>>, <<aUp, cLow>>,
   <<aBad, cLow>>, <<aLow, junk>>, <<aLow>>, <<Undef, cLow>>, <<>>}

\* pool <ADDRESS> <TOKEN_A> <TOKEN_B> [FEE]
fee500 == <<"5","0","0">>
PoolArgLists ==
  {<<aLow, sweth, sUSDC>>, <<aLow, sweth, sUSDC, fee500>>, <<aUp, sUSDC, sweth, fee500>>,
   <<cLow, sweth, sUSDC, fee500>>, <<cLow, sFOO, sUSDC>>,
   <<aLow, sweth, sUSDC, <<"7">>>>, <<cLow, sweth, sUSDC, <<"x">>>>,
   <<aBad, sweth, sUSDC>>, <<junk, sweth, sUSDC>>,
   <<aLow, sweth>>, <<aLow>>, <<Undef, sweth, sUSDC>>, <<>>, <<wList>>}

\* swap <IN> <AMOUNT> to <OUT> [FEE] and swap <IN> <OUT> <AMOUNT> [FEE]
SwapArgLists ==
  {<<sUSDC, <<"1">>, wTo, sweth>>, <<sUSDC, <<"1">>, wTO, sweth, fee500>>,
   <<sweth, <<"0",".","0","1">>, wTo, sUSDC>>, <<sFOO, <<"1">>, wTo, sweth>>,
   <<sUSDC, sweth, <<"1">>>>, <<sUSDC, sweth, <<"x">>, fee500>>,
   <<sUSDC, sweth>>, <<sUSDC, wTo, sweth>>, <<>>}

\* transfer <TO> <AMOUNT>
TransferArgLists ==
  {<<aLow, <<"1">>>>, <<aLow, <<"0",".","0","1">>>>, <<aLow, <<"x">>>>,
   <<aBad, <<"1">>>>, <<aLow>>, <<>>}

NoResult == Result("none", 0, <<"">>, <<>>, <<>>)

InitCli ==
  /\ walletFile = None
  /\ configFile = None
  /\ poolsFile = None
  /\ last = NoResult

\* one run of the program: process.argv.slice(2) is args
Run(args) == argv' = args /\ main(args)

RunInit == Run(<<wInit>>)
RunConfig == \E args \in ConfigArgLists : Run(<<wConfig>> \o args)
RunPool == \E args \in PoolArgLists : Run(<<wPool>> \o args)
RunPools == Run(<<wPools>>)
RunSwap == \E args \in SwapArgLists : Run(<<wSwap>> \o args)
RunBalance == Run(<<wBalance>>)
RunTransfer == \E args \in TransferArgLists : Run(<<wTransfer>> \o args)
RunStatus == Run(<<wStatus>>)
RunHelp == Run(<<>>)

NextCli ==
  /\ \/ RunInit
     \/ RunConfig
     \/ RunPool
     \/ RunPools
     \/ RunSwap
     \/ RunBalance
     \/ RunTransfer
     \/ RunStatus
     \/ RunHelp
  /\ UNCHANGED <<call, ui, chain, storage, op, safeTxs, libCalls>>

InitRest ==
  /\ argv = <<>> /\ call = None /\ ui = None /\ chain = None /\ storage = None /\ op = None /\ safeTxs = <<>>
  /\ NoCalls

Init == InitCli /\ InitRest
Next == NextCli
Spec == Init /\ [][Next]_vars

-----------------------------------------------------------------------------
(* The swap argument parser on its own: every argument list up to MaxArgs words *)

MaxArgs == 5

s1INCH == <<"1","I","N","C","H">>
ParseWords == {sUSDC, sWETH, s1INCH, <<"1">>, wTo, wTO}

ArgSeqs == UNION {[1..n -> ParseWords] : n \in 0..MaxArgs}

InitParse ==
  /\ argv \in ArgSeqs
  /\ call = None
  /\ InitCli
  /\ ui = None /\ chain = None /\ storage = None /\ op = None /\ safeTxs = <<>>
  /\ NoCalls

\* case "swap" of main, up to the call of cmdSwap
ParseSwap ==
  /\ call = None
  /\ call' = Some([natural |-> parseNaturalSwap(argv),
                   cmdSwap |-> swapArgs(<<wSwap>> \o argv)])
  /\ UNCHANGED <<argv, walletFile, configFile, poolsFile, last, ui, chain, storage, op, safeTxs, libCalls>>

NextParse == ParseSwap
SpecParse == InitParse /\ [][NextParse]_vars

-----------------------------------------------------------------------------
(* The DApp: ConfigureRoles, the Safe and the Roles Modifier proxy.  The chain
   state is the proxies that exist, the Safe's module list and, for each
   modifier, the members of the swap role and whether the SwapRouter target and
   the exactInputSingle function are allowed.  The UI reads back the first two;
   the role tables inside the modifier are never read by the UI. *)

\* the addresses the proxy factory can give a new proxy, as its event log
\* spells them (lower case)
ModAddrs == {<<"0", "x", "f", "a">>}

\* one call of a Safe transaction
Call(fn, to, member, memberOf) == [fn |-> fn, to |-> to, member |-> member, memberOf |-> memberOf]

enableModuleCall(moduleAddress) == Call("enableModule", moduleAddress, Undef, TRUE)
assignRolesCall(roles, member, memberOf) == Call("assignRoles", roles, member, memberOf)
scopeTargetCall(roles) == Call("scopeTarget", roles, Undef, TRUE)
scopeAllowFunctionCall(roles) == Call("scopeAllowFunction", roles, Undef, TRUE)

\* what one call does on chain: enableModule on the Safe; assignRoles, scopeTarget
\* and scopeAllowFunction on the role tables of the modifier the call goes to
ApplyCall(ch, c) ==
  LET to == toLowerCase(c.to)
  IN CASE c.fn = "enableModule" ->
            IF \E i \in DOMAIN ch.modules : ch.modules[i] = to
            THEN ch
            ELSE [ch EXCEPT !.modules = <<to>> \o @]
       [] c.fn = "assignRoles" ->
            [ch EXCEPT !.members[to] = IF c.memberOf THEN @ \cup {toLowerCase(c.member)}
                                       ELSE @ \ {toLowerCase(c.member)}]
       [] c.fn = "scopeTarget" -> [ch EXCEPT !.scopedTarget = @ \cup {to}]
       [] c.fn = "scopeAllowFunction" -> [ch EXCEPT !.allowedFunction = @ \cup {to}]

RECURSIVE ApplyCalls(_, _)
\* MultiSend: the calls of a batch are executed in the order of the list
ApplyCalls(ch, calls) ==
  IF calls = <<>> THEN ch ELSE ApplyCalls(ApplyCall(ch, Head(calls)), Tail(calls))

\* safeSdk.executeTransaction: it throws, or it returns the hash of a transaction
\* that is then mined or never takes effect; nothing waits for the receipt
ExecOutcomes == {"throws", "mined", "dropped"}

\* the Safe transaction is handed over and, if mined, applied
executeTransaction(calls, outcome) ==
  /\ outcome # "throws"
  /\ safeTxs' = calls
  /\ chain' = IF outcome = "mined" THEN ApplyCalls(chain, calls) ELSE chain

enableModuleOnSafe(moduleAddress, outcome) == executeTransaction(<<enableModuleCall(moduleAddress)>>, outcome)
executeViaSafe(call1, outcome) == executeTransaction(<<call1>>, outcome)
executeBatchViaSafe(calls, outcome) == executeTransaction(calls, outcome)

-----------------------------------------------------------------------------
(* localStorage *)

StorageKey(rolesModifierAddress) == toLowerCase(rolesModifierAddress)

loadTargetScopedIn(st, rolesModifierAddress) == StorageKey(rolesModifierAddress) \in st.scoped
loadTargetScoped(rolesModifierAddress) == loadTargetScopedIn(storage, rolesModifierAddress)

saveTargetScopedIn(st, rolesModifierAddress) ==
  [st EXCEPT !.scoped = @ \cup {StorageKey(rolesModifierAddress)}]

loadRoleMembersIn(st, rolesModifierAddress) == st.members[StorageKey(rolesModifierAddress)]
loadRoleMembers(rolesModifierAddress) == loadRoleMembersIn(storage, rolesModifierAddress)

Includes(list, x) == \E i \in DOMAIN list : list[i] = x

\* mutant: the member is stored as typed
saveRoleMemberInAsTyped(st, rolesModifierAddress, member) ==
  LET existing == loadRoleMembersIn(st, rolesModifierAddress)
      normalized == member
  IN [st EXCEPT !.members[StorageKey(rolesModifierAddress)] =
        IF Includes(existing, normalized) THEN existing ELSE Append(existing, normalized)]

saveRoleMemberIn(st, rolesModifierAddress, member) ==
  LET existing == loadRoleMembersIn(st, rolesModifierAddress)
      normalized == toLowerCase(member)
  IN [st EXCEPT !.members[StorageKey(rolesModifierAddress)] =
        IF Includes(existing, normalized) THEN existing ELSE Append(existing, normalized)]

removeRoleMemberIn(st, rolesModifierAddress, member) ==
  LET existing == loadRoleMembersIn(st, rolesModifierAddress)
      normalized == toLowerCase(member)
  IN [st EXCEPT !.members[StorageKey(rolesModifierAddress)] =
        SelectSeq(existing, LAMBDA m : m # normalized)]

-----------------------------------------------------------------------------
(* roles.ts: each function hands one Safe transaction to the Safe and then
   records what it did in localStorage *)

\* the proxy of the next deployModule call: an address no proxy has yet
NextModifier == CHOOSE r \in ModAddrs : r \notin chain.deployed

CanDeploy == \E r \in ModAddrs : r \notin chain.deployed

\* the modifier an earlier visit of the page deployed
EarlierModifier == CHOOSE r \in ModAddrs : TRUE

\* eth_sendTransaction is refused; the receipt is not seen in time although the
\* proxy is created; the receipt is seen and carries the proxy address
DeployOutcomes == {"throws", "timeout", "confirmed"}

configureSwapRoleScopeFirst(rolesModifierAddress, userB, outcome) ==
  /\ executeBatchViaSafe(<<scopeTargetCall(rolesModifierAddress),
                           scopeAllowFunctionCall(rolesModifierAddress),
                           assignRolesCall(rolesModifierAddress, userB, TRUE)>>, outcome)
  /\ storage' = saveTargetScopedIn(saveRoleMemberIn(storage, rolesModifierAddress, userB), rolesModifierAddress)

configureSwapRole(rolesModifierAddress, userB, outcome) ==
  /\ executeBatchViaSafe(<<assignRolesCall(rolesModifierAddress, userB, TRUE),
                           scopeTargetCall(rolesModifierAddress),
                           scopeAllowFunctionCall(rolesModifierAddress)>>, outcome)
  /\ storage' = saveTargetScopedIn(saveRoleMemberIn(storage, rolesModifierAddress, userB), rolesModifierAddress)

scopeSwapTarget(rolesModifierAddress, outcome) ==
  /\ executeBatchViaSafe(<<scopeTargetCall(rolesModifierAddress),
                           scopeAllowFunctionCall(rolesModifierAddress)>>, outcome)
  /\ storage' = saveTargetScopedIn(storage, rolesModifierAddress)

assignSwapRoleMember(rolesModifierAddress, member, outcome) ==
  /\ executeViaSafe(assignRolesCall(rolesModifierAddress, member, TRUE), outcome)
  /\ storage' = saveRoleMemberIn(storage, rolesModifierAddress, member)

revokeSwapRole(rolesModifierAddress, member, outcome) ==
  /\ executeViaSafe(assignRolesCall(rolesModifierAddress, member, FALSE), outcome)
  /\ storage' = removeRoleMemberIn(storage, rolesModifierAddress, member)

\* mutant: the batch assigns the new member and then revokes the old one, and the old
\* member stays in the stored list
changeSwapRoleMemberAssignFirst(rolesModifierAddress, oldMember, newMember, outcome) ==
  /\ executeBatchViaSafe(<<assignRolesCall(rolesModifierAddress, newMember, TRUE),
                           assignRolesCall(rolesModifierAddress, oldMember, FALSE)>>, outcome)
  /\ storage' = saveRoleMemberIn(storage, rolesModifierAddress, newMember)

changeSwapRoleMember(rolesModifierAddress, oldMember, newMember, outcome) ==
  /\ executeBatchViaSafe(<<assignRolesCall(rolesModifierAddress, oldMember, FALSE),
                           assignRolesCall(rolesModifierAddress, newMember, TRUE)>>, outcome)
  /\ storage' = saveRoleMemberIn(removeRoleMemberIn(storage, rolesModifierAddress, oldMember),
                                 rolesModifierAddress, newMember)

\* getSafeInfo and the owner()/avatar() calls: the request fails, or the first
\* `skip` modules fail their eth_call and the next one is taken.  Every module of
\* this Safe is a Roles Modifier owned by the Safe; getModules gives checksum case.
DetectedModules ==
  {None} \cup {Some(ChecksumCase(chain.modules[i])) : i \in DOMAIN chain.modules}

\* detectRolesModifierState once the module is known: the rest is read from localStorage
currentStep(found) ==
  IF found = None THEN "deploy"
  ELSE IF loadTargetScoped(found[1]) /\ loadRoleMembers(found[1]) # <<>> THEN "done"
  ELSE "configure"

-----------------------------------------------------------------------------
(* ConfigureRoles: React state, the detection effect and the click handlers.
   A handler runs in two steps: up to its await (status pending, its arguments
   captured from the render it was clicked in) and from the await on. *)

MaxInFlight == 1

aMixed == ChecksumCase(aLow)

\* what the admin has typed into the agent address field and into the new-address
\* field of a member row when a button that reads the field is clicked
UserBInputs == {aLow, aMixed}
NewMemberInputs == {cLow}

InitialUi ==
  [step |-> "checking", status |-> "idle", rolesAddress |-> None, isTargetScoped |-> FALSE,
   knownRolesAddress |-> None]

Handler(name, roles, member, newMember) ==
  [handler |-> name, rolesAddress |-> roles, member |-> member, newMember |-> newMember]

DetectStarted == Some([phase |-> "started", found |-> None])

isPending == ui.status = "pending"

assignedMembers == IF ui.rolesAddress = None THEN <<>> ELSE loadRoleMembers(ui.rolesAddress[1])

DonePanel == ui.step = "done" /\ ui.rolesAddress # None

\* the detect effect runs again when Home renders again: onConfigured is a new
\* function on every render of Home
EffectRuns(knownBefore, knownAfter) == knownBefore # knownAfter

\* up to the first await of a handler
Start(h) ==
  /\ ~isPending
  /\ Cardinality(op.pending) < MaxInFlight
  /\ h \notin op.pending
  /\ ui' = [ui EXCEPT !.status = "pending"]
  /\ op' = [op EXCEPT !.pending = @ \cup {h}]
  /\ UNCHANGED <<chain, storage, safeTxs>>

\* mutant: the member is stored before the Safe transaction call, so the write stays
\* when the call throws
FailedAfterWrite(h) ==
  /\ ui' = [ui EXCEPT !.status = "error"]
  /\ op' = [op EXCEPT !.pending = @ \ {h}]
  /\ storage' = IF h.rolesAddress # None /\ Truthy(h.member)
                 THEN saveRoleMemberIn(storage, h.rolesAddress[1], <<"0","x","e","e">>)
                 ELSE storage
  /\ UNCHANGED <<chain, safeTxs>>

\* the catch block of a handler
Failed(h) ==
  /\ ui' = [ui EXCEPT !.status = "error"]
  /\ op' = [op EXCEPT !.pending = @ \ {h}]
  /\ UNCHANGED <<chain, storage, safeTxs>>

Done(h) == op' = [op EXCEPT !.pending = @ \ {h}]

InFlight(name) == {h \in op.pending : h.handler = name}

detectStart ==
  /\ ui.knownRolesAddress # None
  /\ op' = [op EXCEPT !.detect = DetectStarted]
  /\ UNCHANGED <<ui, chain, storage, safeTxs>>

detectRead ==
  /\ op.detect # None /\ op.detect[1].phase = "started"
  /\ \E found \in DetectedModules :
       op' = [op EXCEPT !.detect = Some([phase |-> "read", found |-> found])]
  /\ UNCHANGED <<ui, chain, storage, safeTxs>>

detectApply ==
  /\ op.detect # None /\ op.detect[1].phase = "read"
  /\ LET found == op.detect[1].found
     IN IF found # None
        THEN /\ ui' = [ui EXCEPT !.rolesAddress = found,
                                 !.isTargetScoped = loadTargetScoped(found[1]),
                                 !.knownRolesAddress = found,
                                 !.step = currentStep(found),
                                 !.status = "success"]
             /\ op' = [op EXCEPT !.detect = IF EffectRuns(ui.knownRolesAddress, found)
                                            THEN DetectStarted ELSE None]
        ELSE /\ ui' = [ui EXCEPT !.step = "deploy"]
             /\ op' = [op EXCEPT !.detect = None]
  /\ UNCHANGED <<chain, storage, safeTxs>>

handleDeployRolesStart ==
  /\ ui.step = "deploy"
  /\ Start(Handler("handleDeployRoles", None, Undef, Undef))

handleDeployRolesEnd ==
  \E h \in InFlight("handleDeployRoles") : \E outcome \in DeployOutcomes :
    /\ outcome # "throws" => CanDeploy
    /\ chain' = IF outcome = "throws" THEN chain
                ELSE [chain EXCEPT !.deployed = @ \cup {NextModifier}]
    /\ IF outcome = "confirmed"
       THEN /\ ui' = [ui EXCEPT !.rolesAddress = Some(NextModifier),
                                !.knownRolesAddress = Some(NextModifier),
                                !.step = "enable",
                                !.status = "success"]
            /\ op' = [op EXCEPT !.pending = @ \ {h},
                                !.detect = IF EffectRuns(ui.knownRolesAddress, Some(NextModifier))
                                           THEN DetectStarted ELSE @]
       ELSE /\ ui' = [ui EXCEPT !.status = "error"]
            /\ op' = [op EXCEPT !.pending = @ \ {h}]
    /\ UNCHANGED <<storage, safeTxs>>

handleEnableModuleStart ==
  /\ ui.step = "enable"
  /\ ui.rolesAddress # None
  /\ Start(Handler("handleEnableModule", ui.rolesAddress, Undef, Undef))

handleEnableModuleEndSkips ==
  \E h \in InFlight("handleEnableModule") : \E outcome \in ExecOutcomes :
    IF outcome = "throws" THEN Failed(h)
    ELSE /\ enableModuleOnSafe(h.rolesAddress[1], outcome)
         /\ ui' = [ui EXCEPT !.step = "done", !.status = "success"]
         /\ Done(h)
         /\ UNCHANGED storage

handleEnableModuleEnd ==
  \E h \in InFlight("handleEnableModule") : \E outcome \in ExecOutcomes :
    IF outcome = "throws" THEN Failed(h)
    ELSE /\ enableModuleOnSafe(h.rolesAddress[1], outcome)
         /\ ui' = [ui EXCEPT !.step = "configure", !.status = "success"]
         /\ Done(h)
         /\ UNCHANGED storage

handleConfigureRoleStart ==
  /\ ui.step = "configure"
  /\ ui.rolesAddress # None
  /\ \E userB \in UserBInputs :
       /\ Truthy(userB)
       /\ Start(Handler("handleConfigureRole", ui.rolesAddress, userB, Undef))

handleConfigureRoleEnd ==
  \E h \in InFlight("handleConfigureRole") : \E outcome \in ExecOutcomes :
    IF outcome = "throws" THEN Failed(h)
    ELSE /\ configureSwapRole(h.rolesAddress[1], h.member, outcome)
         /\ ui' = [ui EXCEPT !.isTargetScoped = TRUE, !.step = "done", !.status = "success"]
         /\ Done(h)

handleScopeTargetStart ==
  /\ ui.step = "configure" \/ DonePanel
  /\ ui.rolesAddress # None
  /\ ~ui.isTargetScoped
  /\ Start(Handler("handleScopeTarget", ui.rolesAddress, Undef, Undef))

handleScopeTargetEnd ==
  \E h \in InFlight("handleScopeTarget") : \E outcome \in ExecOutcomes :
    IF outcome = "throws" THEN Failed(h)
    ELSE /\ scopeSwapTarget(h.rolesAddress[1], outcome)
         /\ ui' = [ui EXCEPT !.isTargetScoped = TRUE, !.status = "success"]
         /\ Done(h)

\* the Remove button of a member row
handleRevokeStart ==
  /\ DonePanel
  /\ \E i \in DOMAIN assignedMembers :
       Start(Handler("handleRevoke", ui.rolesAddress, assignedMembers[i], Undef))

handleRevokeEnd ==
  \E h \in InFlight("handleRevoke") : \E outcome \in ExecOutcomes :
    IF outcome = "throws" THEN Failed(h)
    ELSE /\ revokeSwapRole(h.rolesAddress[1], h.member, outcome)
         /\ ui' = [ui EXCEPT !.status = "success",
                             !.step = IF loadRoleMembersIn(storage', h.rolesAddress[1]) = <<>>
                                      THEN "configure" ELSE @]
         /\ Done(h)

\* the Change button of a member row, a new address and the Confirm Change button
handleChangeMemberStart ==
  /\ DonePanel
  /\ \E i \in DOMAIN assignedMembers : \E newMemberAddress \in NewMemberInputs :
       /\ Truthy(newMemberAddress)
       /\ Start(Handler("handleChangeMember", ui.rolesAddress, assignedMembers[i], newMemberAddress))

handleChangeMemberEnd ==
  \E h \in InFlight("handleChangeMember") : \E outcome \in ExecOutcomes :
    IF outcome = "throws" THEN Failed(h)
    ELSE /\ changeSwapRoleMember(h.rolesAddress[1], h.member, h.newMember, outcome)
         /\ ui' = [ui EXCEPT !.status = "success"]
         /\ Done(h)

handleAddAnotherStart ==
  /\ DonePanel
  /\ \E userB \in UserBInputs :
       /\ Truthy(userB)
       /\ Start(Handler("handleAddAnother", ui.rolesAddress, userB, Undef))

handleAddAnotherEnd ==
  \E h \in InFlight("handleAddAnother") : \E outcome \in ExecOutcomes :
    IF outcome = "throws" THEN Failed(h)
    ELSE /\ assignSwapRoleMember(h.rolesAddress[1], h.member, outcome)
         /\ ui' = [ui EXCEPT !.status = "success"]
         /\ Done(h)

\* the page is loaded again: the component starts from its initial state, the
\* promises of the old page are gone, the effect runs on mount
mount ==
  /\ ui.step # "checking"
  /\ ui' = InitialUi
  /\ op' = [pending |-> {}, detect |-> DetectStarted]
  /\ UNCHANGED <<chain, storage, safeTxs>>

EmptyChain ==
  [deployed |-> {}, modules |-> <<>>, members |-> [r \in ModAddrs |-> {}],
   scopedTarget |-> {}, allowedFunction |-> {}]

EmptyStorage == [members |-> [r \in ModAddrs |-> <<>>], scoped |-> {}]

\* the Safe when the page is opened: new, or with a modifier that an earlier
\* visit enabled, or with one that an earlier visit also configured for an agent
InitUI ==
  /\ InitCli
  /\ argv = <<>> /\ call = None
  /\ ui = InitialUi
  /\ op = [pending |-> {}, detect |-> DetectStarted]
  /\ safeTxs = <<>>
  /\ NoCalls
  /\ \/ chain = EmptyChain /\ storage = EmptyStorage
     \/ /\ chain = [EmptyChain EXCEPT !.deployed = {EarlierModifier}, !.modules = <<EarlierModifier>>]
        /\ storage = EmptyStorage
     \/ /\ chain = ApplyCalls([EmptyChain EXCEPT !.deployed = {EarlierModifier}, !.modules = <<EarlierModifier>>],
                             <<assignRolesCall(EarlierModifier, aLow, TRUE), scopeTargetCall(EarlierModifier),
                               scopeAllowFunctionCall(EarlierModifier)>>)
        /\ storage = saveTargetScopedIn(saveRoleMemberIn(EmptyStorage, EarlierModifier, aLow), EarlierModifier)

NextUI ==
  /\ \/ detectStart
     \/ detectRead
     \/ detectApply
     \/ handleDeployRolesStart
     \/ handleDeployRolesEnd
     \/ handleEnableModuleStart
     \/ handleEnableModuleEnd
     \/ handleConfigureRoleStart
     \/ handleConfigureRoleEnd
     \/ handleScopeTargetStart
     \/ handleScopeTargetEnd
     \/ handleRevokeStart
     \/ handleRevokeEnd
     \/ handleChangeMemberStart
     \/ handleChangeMemberEnd
     \/ handleAddAnotherStart
     \/ handleAddAnotherEnd
     \/ mount
  /\ UNCHANGED <<walletFile, configFile, poolsFile, last, argv, call, libCalls>>

SpecUI == InitUI /\ [][NextUI]_vars

-----------------------------------------------------------------------------
(* Properties of the CLI *)

Files == <<walletFile, configFile, poolsFile>>

\* this step is a run of the program with the given command word
Ran(command) == argv' # <<>> /\ toLowerCase(argv'[1]) = command

PoolsOf(file) == IF file = None THEN <<>> ELSE file[1]

SameAddress(a, b) == toLowerCase(a) = toLowerCase(b)

Stored(pools, address) == \E i \in DOMAIN pools : SameAddress(pools[i].poolAddress, address)

AllowedFees == {100, 500, 3000, 10000}

\* the fee argument is left out or reads as one of the allowed tiers
FeeArgumentAllowed(fee) == ~Truthy(fee) \/ (parseInt(fee) # NaN /\ parseInt(fee)[1] \in AllowedFees)

\* pool <ADDRESS> <TOKEN_A> <TOKEN_B> [FEE] with everything in order
AcceptablePool(args) ==
  /\ Truthy(Arg(args, 0)) /\ Truthy(Arg(args, 1)) /\ Truthy(Arg(args, 2))
  /\ isAddress(Arg(args, 0))
  /\ FeeArgumentAllowed(Arg(args, 3))

OnePerAddress(pools) ==
  \A i, j \in DOMAIN pools : SameAddress(pools[i].poolAddress, pools[j].poolAddress) => i = j

PoolCommandEffect(args) ==
  LET before == PoolsOf(poolsFile)
      after == PoolsOf(poolsFile')
  IN /\ Stored(before, Arg(args, 0)) => after = before
     /\ (AcceptablePool(args) /\ ~Stored(before, Arg(args, 0))) =>
          /\ Len(after) = Len(before) + 1
          /\ SubSeq(after, 1, Len(before)) = before
          /\ after[Len(after)].poolAddress = Arg(args, 0)

\* C1: after any sequence of pool commands the stored list has at most one record per
\* pool address compared case-insensitively; a pool command whose address is already
\* stored (in any letter case) leaves the list as it was, and one with a new valid
\* address appends exactly one record, whatever pair and fee the other records have.
C1_OneRecordPerPoolAddress ==
  /\ [] OnePerAddress(PoolsOf(poolsFile))
  /\ [][Ran(wPool) => PoolCommandEffect(Tail(argv'))]_vars

\* C1 witness: two pools with the same pair and fee are stored, the first under the
\* upper-case spelling, and the last pool command typed the lower-case spelling of it.
C1_Witness ==
  /\ Len(PoolsOf(poolsFile)) = 2
  /\ PoolsOf(poolsFile)[1].poolAddress = aUp
  /\ PoolsOf(poolsFile)[2].fee = PoolsOf(poolsFile)[1].fee
  /\ {PoolsOf(poolsFile)[2].tokenA.symbol, PoolsOf(poolsFile)[2].tokenB.symbol}
       = {PoolsOf(poolsFile)[1].tokenA.symbol, PoolsOf(poolsFile)[1].tokenB.symbol}
  /\ last.out = <<"Pool already saved:", aLow>>

NoWalletRecord == walletFile = None \/ "privateKey" \notin DOMAIN walletFile[1]

ConfigIncomplete ==
  \/ configFile = None
  \/ "safeAddress" \notin DOMAIN configFile[1]
  \/ "rolesModifierAddress" \notin DOMAIN configFile[1]
  \/ configFile[1].safeAddress = Undef
  \/ configFile[1].rolesModifierAddress = Undef

StoppedBeforeRpc == last'.exit = 1 /\ last'.rpc = <<>> /\ last'.sent = <<>>

\* C2: swap without a wallet record or with a config that lacks the Safe or the Roles
\* Modifier address, and balance and transfer without a wallet record, exit with status 1
\* before any RPC call and without sending a transaction.
C2_MissingPrerequisiteExits ==
  [][/\ (Ran(wSwap) /\ (NoWalletRecord \/ ConfigIncomplete)) => StoppedBeforeRpc
     /\ (Ran(wBalance) /\ NoWalletRecord) => StoppedBeforeRpc
     /\ (Ran(wTransfer) /\ NoWalletRecord) => StoppedBeforeRpc]_vars

\* C2 witness: a wallet exists, no config does, and swap stopped with the instruction to
\* run config.
C2_Witness ==
  /\ ~NoWalletRecord
  /\ ConfigIncomplete
  /\ last.cmd = "swap" /\ last.out = <<"Missing configuration">> /\ last.exit = 1

\* C3: every transaction swap sends goes to the configured Roles Modifier with value 0
\* and carries execTransactionWithRole(SwapRouter, 0, data, Call, role 1, shouldRevert)
\* around an exactInputSingle whose recipient is the configured Safe, not the agent wallet.
C3_SwapTransactionShape ==
  last.cmd = "swap" =>
    \A i \in DOMAIN last.sent :
      LET tx == last.sent[i]
      IN /\ configFile # None
         /\ tx.to = configFile[1].rolesModifierAddress
         /\ tx.value = 0
         /\ tx.data.fn = "execTransactionWithRole"
         /\ tx.data.to = "0x3bFA4769FB09eefC5a80d6E87c3B9C650f7Ae48E"
         /\ tx.data.value = 0
         /\ tx.data.operation = 0
         /\ tx.data.role = 1
         /\ tx.data.shouldRevert = TRUE
         /\ tx.data.data.fn = "exactInputSingle"
         /\ tx.data.data.recipient = configFile[1].safeAddress
         /\ tx.data.data.recipient # AddressOf(walletFile[1].privateKey)

\* C3 witness: a swap was sent and confirmed.
C3_Witness ==
  last.cmd = "swap" /\ Len(last.sent) = 1 /\ last.out = <<"Swap succeeded!">>

\* C4: once a wallet record with a private key exists no command changes the wallet
\* file, only an init that finds no wallet writes it, and init on an existing wallet
\* only reports it.
C4_WalletWrittenOnce ==
  [][/\ ~NoWalletRecord => walletFile' = walletFile
     /\ walletFile' # walletFile => (Ran(wInit) /\ walletFile = None)
     /\ (Ran(wInit) /\ ~NoWalletRecord) =>
          /\ Files' = Files
          /\ last'.out \in {<<"Wallet already exists.">>, <<"Fatal error">>}
          /\ last'.sent = <<>>]_vars

\* C4 witness: init ran on an existing wallet.
C4_Witness ==
  ~NoWalletRecord /\ last.cmd = "init" /\ last.out = <<"Wallet already exists.">>

FailureMessages ==
  {"Usage: config", "Invalid Safe address:", "Invalid Roles Modifier address:",
   "Usage: pool", "Invalid pool address:", "Invalid fee tier",
   "Usage: swap", "No wallet found", "Missing configuration", "Unknown token:",
   "No pool found for this pair", "No ETH for gas", "Swap failed", "Swap reverted on-chain.",
   "Usage: transfer", "Invalid recipient address:", "Insufficient balance",
   "Transfer failed", "Transfer reverted.", "Fatal error"}

\* C5: every failure of a CLI command ends the process with a non-zero exit code,
\* including a swap or transfer whose transaction is rejected, not confirmed or reverted.
C5_FailuresExitNonZero ==
  last.out[1] \in FailureMessages => last.exit # 0

\* config <SAFE> <ROLES>: an argument missing or not an address
BadConfigArgs(args) ==
  \/ ~Truthy(Arg(args, 0)) \/ ~Truthy(Arg(args, 1))
  \/ ~isAddress(Arg(args, 0)) \/ ~isAddress(Arg(args, 1))

\* pool (other than the alias pool list): an argument missing, the address malformed or
\* the fee outside the allowed set
BadPoolArgs(args) ==
  /\ toLowerCase(Arg(args, 0)) # wList
  /\ ~AcceptablePool(args)

\* swap: fewer than the three required arguments
BadSwapArgs(args) == Len(args) < 3 \/ \E i \in 1..3 : ~Truthy(args[i])

\* transfer <TO> <AMOUNT>: an argument missing or the address malformed
BadTransferArgs(args) ==
  ~Truthy(Arg(args, 0)) \/ ~Truthy(Arg(args, 1)) \/ ~isAddress(Arg(args, 0))

Refused == last'.exit = 1 /\ Files' = Files

\* C6: config, pool, swap or transfer with a required argument missing, a malformed
\* address or (pool) a fee outside the allowed set exits with code 1 and leaves the
\* wallet, config and pools files as they were.
C6_InvalidInputRefused ==
  [][/\ (Ran(wConfig) /\ BadConfigArgs(Tail(argv'))) => Refused
     /\ (Ran(wPool) /\ BadPoolArgs(Tail(argv'))) => Refused
     /\ (Ran(wSwap) /\ BadSwapArgs(Tail(argv'))) => Refused
     /\ (Ran(wTransfer) /\ BadTransferArgs(Tail(argv'))) => Refused]_vars

\* C6 witness: pools are stored and a pool command was refused for its fee.
C6_Witness ==
  /\ Len(PoolsOf(poolsFile)) > 0
  /\ last.cmd = "pool" /\ last.out = <<"Invalid fee tier">> /\ last.exit = 1

\* C7: after a successful config <safe> <roles> the stored record is exactly the two
\* given addresses; nothing of the record stored before is left.
C7_ConfigOverwritten ==
  [][(Ran(wConfig) /\ ~BadConfigArgs(Tail(argv'))) =>
        /\ configFile' = Some([safeAddress |-> argv'[2], rolesModifierAddress |-> argv'[3]])
        /\ last'.exit = 0]_vars

\* C7 witness: the config holds a pair that only the second of the valid command lines
\* writes, after a config command succeeded.
C7_Witness ==
  /\ configFile = Some([safeAddress |-> cLow, rolesModifierAddress |-> aLow])
  /\ last.cmd = "config" /\ last.exit = 0

-----------------------------------------------------------------------------
(* Properties of the swap argument parser *)

IsTo(w) == toLowerCase(w) = wTo

\* a decimal number: digits with an optional fraction
IsAmount(w) == w # Undef /\ \A i \in DOMAIN w : IsDigit(w[i]) \/ w[i] = "."

\* <TOKEN_IN> <AMOUNT> to <TOKEN_OUT> [FEE]
NaturalForm(args) ==
  /\ Len(args) \in {4, 5}
  /\ ~IsTo(args[1]) /\ ~IsAmount(args[1])
  /\ IsAmount(args[2])
  /\ IsTo(args[3])

\* no "to", fewer than two arguments before the first one, or none after it
NoSeparator(args) ==
  \/ \A i \in DOMAIN args : ~IsTo(args[i])
  \/ \E i \in DOMAIN args :
       /\ IsTo(args[i]) /\ \A j \in 1..(i - 1) : ~IsTo(args[j])
       /\ (i - 1 < 2 \/ Len(args) - i < 1)

\* C8: for <TOKEN_IN> <AMOUNT> to <TOKEN_OUT> [FEE] the parser yields exactly that
\* token-in, amount, token-out and fee and cmdSwap is called with them; without a usable
\* "to" the parser yields nothing and cmdSwap gets the positional arguments.
C8_NaturalSwapParsed ==
  call # None =>
    /\ NaturalForm(argv) =>
         /\ call[1].natural = Some([tokenIn |-> argv[1], tokenOut |-> argv[4],
                                    amount |-> argv[2], fee |-> Arg(argv, 4)])
         /\ call[1].cmdSwap = <<argv[1], argv[4], argv[2], Arg(argv, 4)>>
    /\ NoSeparator(argv) =>
         /\ call[1].natural = None
         /\ call[1].cmdSwap = <<Arg(argv, 0), Arg(argv, 1), Arg(argv, 2), Arg(argv, 3)>>

-----------------------------------------------------------------------------
(* Properties of the Roles Modifier configuration flow *)

Rank(step) ==
  CASE step = "checking" -> 0
    [] step = "deploy" -> 1
    [] step = "enable" -> 2
    [] step = "configure" -> 3
    [] step = "done" -> 4

\* the handlers this step starts and the ones it finishes
Started == op'.pending \ op.pending
Finished == op.pending \ op'.pending

\* a step of a click handler, as opposed to a step of the detection or a page load
UserAction == op'.pending # op.pending /\ ui'.step # "checking"

\* C9: once detection has set the step, every user action leaves the step where it is
\* or moves it to the next of deploy, enable, configure, done; none moves it back.
C9_LinearFlow ==
  [][UserAction => Rank(ui'.step) \in {Rank(ui.step), Rank(ui.step) + 1}]_vars

\* the steps at which the button of a handler is shown
OwnSteps(handler) ==
  CASE handler = "handleDeployRoles" -> {"deploy"}
    [] handler = "handleEnableModule" -> {"enable"}
    [] handler = "handleConfigureRole" -> {"configure"}
    [] handler = "handleScopeTarget" -> {"configure", "done"}
    [] OTHER -> {"done"}

\* C9 as amended: a handler is started only at its own step and does not change the
\* step then; when it finishes, the step stays or becomes the step after the handler's
\* own (deploy: enable, enable: configure, configure: done), except that a revoke which
\* leaves the stored member list empty sets it back to configure.
C9_FlowWithRevoke ==
  [][UserAction =>
       /\ \A h \in Started : ui.step \in OwnSteps(h.handler) /\ ui'.step = ui.step
       /\ \A h \in Finished :
            \/ ui'.step = ui.step
            \/ h.handler = "handleDeployRoles" /\ ui'.step = "enable"
            \/ h.handler = "handleEnableModule" /\ ui'.step = "configure"
            \/ h.handler = "handleConfigureRole" /\ ui'.step = "done"
            \/ /\ h.handler = "handleRevoke" /\ ui'.step = "configure"
               /\ loadRoleMembersIn(storage', h.rolesAddress[1]) = <<>>]_vars

\* C9 witness: the revoke of the only member has gone through and the flow is back
\* at configure, with the target still scoped.
C9_Witness ==
  /\ ui.step = "configure" /\ ui.status = "success" /\ ui.isTargetScoped
  /\ Len(safeTxs) = 1 /\ safeTxs[1].fn = "assignRoles" /\ ~safeTxs[1].memberOf
  /\ ui.rolesAddress # None /\ loadRoleMembers(ui.rolesAddress[1]) = <<>>
  /\ op.pending = {}

RoleCalls == {"assignRoles", "scopeTarget", "scopeAllowFunction"}

\* the Safe transaction handed over last grants a member the role and scopes the target
ConfigureBatch ==
  /\ \E i \in DOMAIN safeTxs : safeTxs[i].fn = "assignRoles" /\ safeTxs[i].memberOf
  /\ \E i \in DOMAIN safeTxs : safeTxs[i].fn \in {"scopeTarget", "scopeAllowFunction"}

Deployed(address) == toLowerCase(address) \in chain.deployed

Enabled(address) == \E i \in DOMAIN chain.modules : chain.modules[i] = toLowerCase(address)

\* C10: when the UI configures the swap role, scopeTarget and scopeAllowFunction come
\* before the assignRoles call that grants the role, and no such call is made before
\* the modifier is deployed and enabled as a module on the Safe.
C10_ScopeBeforeAssign ==
  /\ ConfigureBatch =>
       \A i, j \in DOMAIN safeTxs :
         (safeTxs[i].fn \in {"scopeTarget", "scopeAllowFunction"} /\ safeTxs[j].fn = "assignRoles") => i < j
  /\ \A i \in DOMAIN safeTxs :
       safeTxs[i].fn \in RoleCalls => Deployed(safeTxs[i].to) /\ Enabled(safeTxs[i].to)

\* C10 as amended: the UI configures the swap role with one batched Safe transaction
\* of assignRoles, scopeTarget, scopeAllowFunction in this order, all to the same
\* modifier; the handler is started only at the configure step, and every role call
\* goes to a modifier that is deployed.
C10_AssignThenScopeInOneBatch ==
  /\ [](/\ ConfigureBatch =>
             /\ Len(safeTxs) = 3
             /\ safeTxs[1].fn = "assignRoles" /\ safeTxs[1].memberOf
             /\ safeTxs[2] = scopeTargetCall(safeTxs[1].to)
             /\ safeTxs[3] = scopeAllowFunctionCall(safeTxs[1].to)
        /\ \A i \in DOMAIN safeTxs : safeTxs[i].fn \in RoleCalls => Deployed(safeTxs[i].to))
  /\ [][\A h \in Started : h.handler = "handleConfigureRole" =>
          ui.step = "configure" /\ Deployed(h.rolesAddress[1])]_vars

\* C10 witness: the configure batch has been handed over and the flow is at done.
C10_Witness ==
  /\ ConfigureBatch
  /\ ui.step = "done" /\ ui.status = "success"
  /\ ui.rolesAddress # None /\ loadRoleMembers(ui.rolesAddress[1]) # <<>>

StoredMembers(r) == {loadRoleMembers(r)[i] : i \in DOMAIN loadRoleMembers(r)}

\* C11: the member list and the target-scoped flag in browser storage mirror the chain:
\* an address is in the stored list of a modifier exactly when it holds the swap role
\* on that modifier (granted by a mined assignRoles and not revoked since), and the flag
\* is set only when the scoping calls have been mined.
C11_StorageMirrorsChain ==
  \A r \in ModAddrs :
    /\ StoredMembers(r) = chain.members[r]
    /\ loadTargetScoped(r) => (r \in chain.scopedTarget /\ r \in chain.allowedFunction)

-----------------------------------------------------------------------------
(* One call of a function that submits a transaction and waits for its receipt:
   deploySafe (safe.ts, waitForTx), deployRolesModifier and executeSwapWithRole
   (roles.ts, waitForReceipt).  The two polling loops are the same code.  Time is
   Date.now() in milliseconds; it moves only while the function awaits. *)

maxWait == 120000
pollInterval == 3000

\* how long an eth_getTransactionReceipt request takes
Latencies == {0, 60000}

\* setTimeout(r, 3000) fires after the interval, or later
TimerDelays == {pollInterval, 2 * pollInterval}

\* what Date.now() can add between two statements that run without an await
Ticks == {0, 1}

TxFns == {"deploySafe", "deployRolesModifier", "executeSwapWithRole"}

\* the status field of a receipt; "" when the receipt carries none
ReceiptStatuses == {"0x1", "0x0", ""}

\* eth_getTransactionReceipt: null until the transaction is mined
nodeReceipt(node) == IF node \in {"unsent", "pending"} THEN None ELSE Some([status |-> node])

\* mutant: the loop returns any receipt that has a status
receiptOutcomeAnyStatus(receipt) ==
  IF receipt # None /\ receipt[1].status # ""
  THEN "returned"
  ELSE ""

\* if (receipt && receipt.status) { if (status === '0x0') throw ...; return receipt }
receiptOutcome(receipt) ==
  IF receipt # None /\ receipt[1].status # ""
  THEN IF receipt[1].status = "0x0" THEN "Transaction reverted" ELSE "returned"
  ELSE ""

Throws(message) == Some([throws |-> TRUE, value |-> message])
Returns(value) == Some([throws |-> FALSE, value |-> value])

TxCallStart(fn, deployed) ==
  [fn |-> fn, pc |-> "called", now |-> 0, start |-> 0, sent |-> 0, polls |-> 0,
   node |-> "unsent", receipt |-> None, wait |-> "", result |-> None, deployed |-> deployed]

InitTx ==
  /\ InitCli /\ argv = <<>> /\ call = None
  /\ ui = None /\ chain = None /\ storage = None /\ op = None /\ safeTxs = <<>>
  /\ reads = <<>> /\ procs = <<>> /\ route = <<>> /\ detect = <<>> /\ NoMore
  /\ \E fn \in TxFns : \E deployed \in BOOLEAN :
       /\ deployed => fn = "deploySafe"
       /\ txCall = TxCallStart(fn, deployed)

TxRest == <<walletFile, configFile, poolsFile, last, argv, call, ui, chain, storage, op, safeTxs,
            reads, procs, route, detect, more>>

\* mutant: the deployment transaction is built without asking isSafeDeployed
deploySafeAlwaysSends ==
  /\ txCall.fn = "deploySafe" /\ txCall.pc = "called"
  /\ \E sdk \in RpcOutcomes :
       txCall' = IF sdk = "throws"
                 THEN [txCall EXCEPT !.pc = "done", !.result = Throws("Safe.init failed")]
                 ELSE [txCall EXCEPT !.pc = "send"]
  /\ UNCHANGED TxRest

\* deploySafe up to the deployment transaction: Safe.init, getAddress, isSafeDeployed
deploySafe ==
  /\ txCall.fn = "deploySafe" /\ txCall.pc = "called"
  /\ \E sdk \in RpcOutcomes :
       txCall' = IF sdk = "throws"
                 THEN [txCall EXCEPT !.pc = "done", !.result = Throws("Safe.init failed")]
                 ELSE IF txCall.deployed
                 THEN [txCall EXCEPT !.pc = "done", !.result = Returns("predictedAddress")]
                 ELSE [txCall EXCEPT !.pc = "send"]
  /\ UNCHANGED TxRest

\* mutant: a refused transaction is submitted again
sendTransactionRetries ==
  /\ \/ txCall.pc = "send"
     \/ txCall.pc = "called" /\ txCall.fn # "deploySafe"
  /\ \E wallet \in RpcOutcomes :
       txCall' = IF wallet = "throws"
                 THEN [txCall EXCEPT !.sent = @ + 2, !.pc = "wait", !.node = "pending"]
                 ELSE [txCall EXCEPT !.sent = @ + 1, !.pc = "wait", !.node = "pending"]
  /\ UNCHANGED TxRest

\* provider.request({ method: 'eth_sendTransaction' }): the wallet refuses, or the
\* transaction is broadcast and the hash returned
sendTransaction ==
  /\ \/ txCall.pc = "send"
     \/ txCall.pc = "called" /\ txCall.fn # "deploySafe"
  /\ \E wallet \in RpcOutcomes :
       txCall' = IF wallet = "throws"
                 THEN [txCall EXCEPT !.sent = @ + 1, !.pc = "done", !.result = Throws("rejected")]
                 ELSE [txCall EXCEPT !.sent = @ + 1, !.pc = "wait", !.node = "pending"]
  /\ UNCHANGED TxRest

\* const start = Date.now()
waitStart ==
  /\ txCall.pc = "wait"
  /\ \E tick \in Ticks :
       txCall' = [txCall EXCEPT !.start = txCall.now, !.now = @ + tick, !.pc = "check"]
  /\ UNCHANGED TxRest

\* while (Date.now() - start < maxWait) ... throw new Error('Transaction confirmation timeout')
waitCheck ==
  /\ txCall.pc = "check"
  /\ txCall' = IF txCall.now - txCall.start < maxWait
               THEN [txCall EXCEPT !.pc = "request"]
               ELSE [txCall EXCEPT !.pc = "waited", !.wait = "Transaction confirmation timeout"]
  /\ UNCHANGED TxRest

\* await provider.request({ method: 'eth_getTransactionReceipt' }) and the test of the receipt
waitRequest ==
  /\ txCall.pc = "request"
  /\ \E latency \in Latencies : \E rpc \in RpcOutcomes :
       LET receipt == nodeReceipt(txCall.node)
           after == [txCall EXCEPT !.polls = @ + 1, !.now = @ + latency]
       IN txCall' = IF rpc = "throws"
                    THEN [after EXCEPT !.pc = "waited", !.wait = "request failed"]
                    ELSE IF receiptOutcome(receipt) # ""
                    THEN [after EXCEPT !.receipt = receipt, !.pc = "waited", !.wait = receiptOutcome(receipt)]
                    ELSE [after EXCEPT !.receipt = receipt, !.pc = "sleep"]
  /\ UNCHANGED TxRest

\* await new Promise((r) => setTimeout(r, 3000))
waitSleep ==
  /\ txCall.pc = "sleep"
  /\ \E delay \in TimerDelays : txCall' = [txCall EXCEPT !.now = @ + delay, !.pc = "check"]
  /\ UNCHANGED TxRest

\* what the caller does with the outcome of the wait
afterWait ==
  /\ txCall.pc = "waited"
  /\ \E proxyInLogs \in BOOLEAN :
       txCall' = [txCall EXCEPT !.pc = "done", !.result =
                    IF txCall.wait # "returned" THEN Throws(txCall.wait)
                    ELSE IF txCall.fn = "deploySafe" THEN Returns("predictedAddress")
                    ELSE IF txCall.fn = "executeSwapWithRole" THEN Returns("txHash")
                    ELSE IF proxyInLogs THEN Returns("proxyAddress")
                    ELSE Throws("Failed to extract Roles Modifier proxy address from logs")]
  /\ UNCHANGED TxRest

\* the network: the pending transaction is mined
mine ==
  /\ txCall.node = "pending"
  /\ \E status \in ReceiptStatuses :
       txCall' = [txCall EXCEPT !.node = status,
                                !.deployed = @ \/ (txCall.fn = "deploySafe" /\ status = "0x1")]
  /\ UNCHANGED TxRest

TxProgram == deploySafe \/ sendTransaction \/ waitStart \/ waitCheck \/ waitRequest \/ waitSleep \/ afterWait

NextTx ==
  \/ deploySafe
  \/ sendTransaction
  \/ waitStart
  \/ waitCheck
  \/ waitRequest
  \/ waitSleep
  \/ afterWait
  \/ mine

SpecTx == InitTx /\ [][NextTx]_vars

\* every request returns or fails, every timer fires: the function keeps running
SpecTxFair == SpecTx /\ WF_vars(TxProgram)

-----------------------------------------------------------------------------
(* Properties of transaction confirmation *)

WaitEnded == txCall.wait # ""

\* the receipt the loop read last has a status
StatusPresent == txCall.receipt # None /\ txCall.receipt[1].status # ""

WaitOutcome ==
  /\ txCall.wait = "returned" => (StatusPresent /\ txCall.receipt[1].status # "0x0")
  /\ txCall.wait = "Transaction reverted" <=> (StatusPresent /\ txCall.receipt[1].status = "0x0")
  /\ txCall.wait = "Transaction confirmation timeout" =>
       /\ txCall.now - txCall.start >= maxWait
       /\ ~StatusPresent
       /\ txCall.polls >= 1
  /\ WaitEnded =>
       txCall.wait \in {"returned", "Transaction reverted", "Transaction confirmation timeout",
                        "request failed"}
  /\ txCall.wait = "request failed" => txCall.polls >= 1

\* C12: the polling loop always ends once it has started, every receipt request having
\* returned or failed; it ends by returning a receipt whose status is present and not
\* '0x0', by throwing 'Transaction reverted' exactly when the status read is '0x0', or by
\* throwing 'Transaction confirmation timeout' once maxWait has elapsed with no usable
\* receipt and after at least one poll; the only other end is a receipt request that fails.
C12_PollingEnds ==
  /\ [] WaitOutcome
  /\ (txCall.pc = "check") ~> WaitEnded

\* C12 witness: the loop timed out after several polls that found no receipt and before
\* the transaction was mined.
C12_Witness ==
  /\ txCall.wait = "Transaction confirmation timeout"
  /\ txCall.polls > 2 /\ txCall.receipt = None /\ txCall.node = "pending"

-----------------------------------------------------------------------------
(* Read-only lookups that fan out with Promise.all: findPools (a getPool call per
   fee tier, then one detail task per pool found), fetchBalances (four balances)
   and fetchAllowances (one allowance per token).  A call is named by its place
   in the array handed to Promise.all.  A response is recorded when it arrives;
   the reactions of the promise run before the next response is taken. *)

ReadFns == {"findPools", "fetchBalances", "fetchAllowances"}

\* the array handed to the first Promise.all: FEE_TIERS, the four balances, TOKENS
FirstCalls(fn) == IF fn = "fetchAllowances" THEN <<1, 2, 3>> ELSE <<1, 2, 3, 4>>

\* what a call can answer: getPool gives the zero address or a pool; the others a
\* number in hex
Answers(fn, stage) ==
  IF fn = "findPools" /\ stage = 1 THEN {"fails", "none", "pool"} ELSE {"fails", "0x1", "0x2"}

\* Number(parseBigInt(hex))
parseBigInt(hex) == IF hex = "0x2" THEN 2 ELSE IF hex = "0x1" THEN 1 ELSE 0

NoAnswers == [i \in 1..4 |-> ""]

ReadsStart(fn) ==
  [fn |-> fn, stage |-> 1, issued |-> FirstCalls(fn), order |-> <<>>, answers |-> NoAnswers,
   result |-> None]

InitReads ==
  /\ InitCli /\ argv = <<>> /\ call = None
  /\ ui = None /\ chain = None /\ storage = None /\ op = None /\ safeTxs = <<>>
  /\ txCall = <<>> /\ procs = <<>> /\ route = <<>> /\ detect = <<>> /\ NoMore
  /\ \E fn \in ReadFns : reads = ReadsStart(fn)

ReadsRest == <<walletFile, configFile, poolsFile, last, argv, call, ui, chain, storage, op, safeTxs,
               txCall, procs, route, detect, more>>

Outstanding == {reads.issued[k] : k \in DOMAIN reads.issued} \ {reads.order[k] : k \in DOMAIN reads.order}

\* mutant: the values are collected in the order the responses arrived
promiseAllArrivalOrder(issued, answers, order) == [k \in DOMAIN issued |-> [call |-> order[k], value |-> answers[order[k]]]]

\* Promise.all: the values in the order of the array of promises
promiseAll(issued, answers, order) == [k \in DOMAIN issued |-> [call |-> issued[k], value |-> answers[issued[k]]]]

\* the response of call i arrives with answer a
Arrived(i, a) == [reads EXCEPT !.order = Append(@, i), !.answers[i] = a]

\* this response settles the Promise.all: all values are in
Fulfils(i) == reads.result = None /\ Len(reads.order) + 1 = Len(reads.issued)

\* results.filter((r) => r.poolAddress !== zero address), as the fee tiers of the pools
existingPools(results) ==
  LET found == SelectSeq(results, LAMBDA r : r.value = "pool")
  IN [k \in DOMAIN found |-> found[k].call]

\* Array.prototype.sort with (a, b) => b.liquidityNum - a.liquidityNum: stable, descending
RECURSIVE sortByLiquidity(_)
sortByLiquidity(details) ==
  IF details = <<>> THEN <<>>
  ELSE LET sorted == sortByLiquidity(SubSeq(details, 1, Len(details) - 1))
           x == details[Len(details)]
           n == Cardinality({k \in DOMAIN sorted : sorted[k].liquidityNum >= x.liquidityNum})
       IN SubSeq(sorted, 1, n) \o <<x>> \o SubSeq(sorted, n + 1, Len(sorted))

\* the record a detail task returns
poolDetail(r) == [fee |-> r.call, liquidityNum |-> parseBigInt(r.value)]

\* findPools: a getPool response arrives
getPoolResponse ==
  /\ reads.fn = "findPools" /\ reads.stage = 1
  /\ \E i \in Outstanding : \E a \in Answers("findPools", 1) :
       LET after == Arrived(i, a)
           results == promiseAll(after.issued, after.answers, after.order)
       IN reads' = IF reads.result # None THEN after
                   ELSE IF a = "fails" THEN [after EXCEPT !.result = Some([throws |-> TRUE, error |-> i])]
                   ELSE IF ~Fulfils(i) THEN after
                   ELSE IF existingPools(results) = <<>> THEN [after EXCEPT !.result = Returns(<<>>)]
                   ELSE [after EXCEPT !.stage = 2, !.issued = existingPools(results),
                                      !.order = <<>>, !.answers = NoAnswers]
  /\ UNCHANGED ReadsRest

\* findPools: a detail task (liquidity, token0, token1 of one pool) settles
poolDetailResponse ==
  /\ reads.fn = "findPools" /\ reads.stage = 2
  /\ \E i \in Outstanding : \E a \in Answers("findPools", 2) :
       LET after == Arrived(i, a)
           results == promiseAll(after.issued, after.answers, after.order)
       IN reads' = IF reads.result # None THEN after
                   ELSE IF a = "fails" THEN [after EXCEPT !.result = Some([throws |-> TRUE, error |-> i])]
                   ELSE IF ~Fulfils(i) THEN after
                   ELSE [after EXCEPT !.result =
                           Returns(sortByLiquidity([k \in DOMAIN results |-> poolDetail(results[k])]))]
  /\ UNCHANGED ReadsRest

\* fetchBalances and fetchAllowances: a response arrives; the catch block logs the
\* error and the state keeps its old value
stateResponse(fn) ==
  /\ reads.fn = fn
  /\ \E i \in Outstanding : \E a \in Answers(fn, 1) :
       LET after == Arrived(i, a)
           results == promiseAll(after.issued, after.answers, after.order)
       IN reads' = IF reads.result # None THEN after
                   ELSE IF a = "fails" THEN [after EXCEPT !.result = Some([throws |-> TRUE, error |-> i])]
                   ELSE IF ~Fulfils(i) THEN after
                   ELSE [after EXCEPT !.result = Returns([k \in DOMAIN results |-> results[k].value])]
  /\ UNCHANGED ReadsRest

balanceResponse == stateResponse("fetchBalances")
allowanceResponse == stateResponse("fetchAllowances")

NextReads ==
  \/ getPoolResponse
  \/ poolDetailResponse
  \/ balanceResponse
  \/ allowanceResponse

SpecReads == InitReads /\ [][NextReads]_vars

-----------------------------------------------------------------------------
(* Properties of the concurrent lookups *)

ReadReturned == reads.result # None /\ ~reads.result[1].throws
ReadFailed == reads.result # None /\ reads.result[1].throws

\* the pools in descending liquidity, pools of equal liquidity in the order of the fee tiers
RankedPools(pools) ==
  /\ Len(pools) = Len(reads.issued)
  /\ \A k \in DOMAIN reads.issued : \E j \in DOMAIN pools :
       pools[j] = [fee |-> reads.issued[k], liquidityNum |-> parseBigInt(reads.answers[reads.issued[k]])]
  /\ \A j, k \in DOMAIN pools :
       j < k => \/ pools[j].liquidityNum > pools[k].liquidityNum
                \/ pools[j].liquidityNum = pools[k].liquidityNum /\ pools[j].fee < pools[k].fee

\* the result is fixed by what each call answered, whatever the order of arrival
ResultByPosition ==
  LET value == reads.result[1].value
  IN IF reads.fn = "findPools"
     THEN IF reads.stage = 1
          THEN value = <<>> /\ \A k \in DOMAIN reads.issued : reads.answers[reads.issued[k]] = "none"
          ELSE RankedPools(value)
     ELSE value = [k \in DOMAIN reads.issued |-> reads.answers[reads.issued[k]]]

\* the calls whose response has arrived with a failure, in the order of arrival
FailedArrivals == SelectSeq(reads.order, LAMBDA i : reads.answers[i] = "fails")

\* C13: findPools, fetchBalances and fetchAllowances go on only after every one of the
\* calls they issued has returned, and their result is the same for every order in which
\* the responses arrive.
C13_JoinsEveryCall ==
  reads # <<>> =>
    /\ reads.result # None => Outstanding = {}
    /\ ReadReturned => ResultByPosition

\* C13 as amended: when every call succeeds the lookup goes on only after all of them
\* have returned and its result is the same for every order of arrival; when a call
\* fails the lookup fails with the first failure to arrive, without waiting for the
\* calls still outstanding.
C13_JoinsEverySuccessfulCall ==
  reads # <<>> =>
    /\ ReadReturned => (Outstanding = {} /\ ResultByPosition)
    /\ ReadFailed => (FailedArrivals # <<>> /\ reads.result[1].error = FailedArrivals[1])
    /\ (reads.result = None /\ reads.order # <<>>) => (FailedArrivals = <<>> /\ Outstanding # {})

\* C13 witness: findPools has returned three pools, two of them of equal liquidity, and
\* the detail of the last pool arrived first.
C13_Witness ==
  /\ reads # <<>> /\ reads.fn = "findPools" /\ reads.stage = 2 /\ ReadReturned
  /\ Len(reads.issued) = 3 /\ reads.order[1] = reads.issued[3]
  /\ reads.answers[reads.issued[1]] = reads.answers[reads.issued[3]]
  /\ reads.answers[reads.issued[2]] # reads.answers[reads.issued[1]]

-----------------------------------------------------------------------------
(* Two pool commands as two operating-system processes.  Each reads pools.json
   with loadPools and, unless the address is already there, writes the list back
   with its record appended; the file is the only thing the processes share. *)

Procs == {1, 2}

\* the valid command lines of the two processes: different pool addresses
ProcArgLists(p) ==
  IF p = 1 THEN {<<aLow, sweth, sUSDC>>, <<aLow, sweth, sUSDC, fee500>>, <<aUp, sUSDC, sweth, fee500>>}
  ELSE {<<cLow, sweth, sUSDC, fee500>>, <<cLow, sFOO, sUSDC>>}

\* pools.json before the two commands are started
EarlierPools ==
  {None,
   Some(<<NewPool(<<"0","x","e","e">>, sWETH, sUNI, 3000)>>),
   Some(<<NewPool(aLow, sWETH, sUSDC, 3000)>>)}

InitProcs ==
  /\ walletFile = None /\ configFile = None /\ last = NoResult
  /\ argv = <<>> /\ call = None
  /\ ui = None /\ chain = None /\ storage = None /\ op = None /\ safeTxs = <<>>
  /\ txCall = <<>> /\ reads = <<>> /\ route = <<>> /\ detect = <<>> /\ NoMore
  /\ poolsFile \in EarlierPools
  /\ \E a1 \in ProcArgLists(1) : \E a2 \in ProcArgLists(2) :
       procs = [p \in Procs |-> [pc |-> "started", args |-> IF p = 1 THEN a1 ELSE a2,
                                  pools |-> <<>>, out |-> ""]]

ProcsRest == <<walletFile, configFile, last, argv, call, ui, chain, storage, op, safeTxs,
               txCall, reads, route, detect, more>>

\* const pools = loadPools() and the duplicate check, after the arguments have passed
\* their checks
poolLoad(p) ==
  /\ procs[p].pc = "started"
  /\ procs' = [procs EXCEPT ![p] =
                 IF PoolExists(loadPools, Arg(procs[p].args, 0))
                 THEN [@ EXCEPT !.pc = "exited", !.pools = loadPools, !.out = "Pool already saved:"]
                 ELSE [@ EXCEPT !.pc = "loaded", !.pools = loadPools]]
  /\ UNCHANGED poolsFile
  /\ UNCHANGED ProcsRest

\* pools.push(...) and saveJson(POOLS_FILE, pools), then the process ends
poolSave(p) ==
  /\ procs[p].pc = "loaded"
  /\ LET args == procs[p].args
     IN poolsFile' = Some(Append(procs[p].pools,
                                 NewPool(Arg(args, 0), toUpperCase(Arg(args, 1)), toUpperCase(Arg(args, 2)),
                                         PoolFeeTier(Arg(args, 3))[1])))
  /\ procs' = [procs EXCEPT ![p] = [@ EXCEPT !.pc = "exited", !.out = "Pool saved!"]]
  /\ UNCHANGED ProcsRest

NextProcs ==
  \/ \E p \in Procs : poolLoad(p)
  \/ \E p \in Procs : poolSave(p)

SpecProcs == InitProcs /\ [][NextProcs]_vars

-----------------------------------------------------------------------------
(* Properties of concurrent commands *)

BothExited == procs # <<>> /\ \A p \in Procs : procs[p].pc = "exited"

\* C14: when two pool commands saving different valid pool addresses run concurrently,
\* in any interleaving of their file reads and writes, the stored pool list contains
\* both records once both processes have exited.
C14_BothPoolsStored ==
  BothExited => \A p \in Procs : Stored(PoolsOf(poolsFile), Arg(procs[p].args, 0))

-----------------------------------------------------------------------------
(* Everything that submits a transaction: the swap and transfer commands of an
   agent that has a wallet and a configuration, and the calls of the DApp
   library.  A behaviour is either a series of commands or one library call. *)

AgentWallet ==
  Some([address |-> AddressOf("k1"), privateKey |-> "k1", mnemonic |-> MnemonicOf("k1"),
        createdAt |-> "now"])

AgentConfig == Some(SetConfig(EmptyObject, aLow, cLow))

InitSubmit ==
  /\ walletFile = AgentWallet /\ configFile = AgentConfig /\ poolsFile = None /\ last = NoResult
  /\ argv = <<>> /\ call = None
  /\ ui = None /\ chain = None /\ storage = None /\ op = None /\ safeTxs = <<>>
  /\ reads = <<>> /\ procs = <<>> /\ route = <<>> /\ detect = <<>> /\ NoMore
  /\ \/ txCall = <<>>
     \/ \E fn \in TxFns : txCall = TxCallStart(fn, FALSE)

NextSubmit ==
  \/ /\ txCall = <<>>
     /\ RunSwap \/ RunTransfer
     /\ UNCHANGED <<call, ui, chain, storage, op, safeTxs, libCalls>>
  \/ /\ txCall # <<>>
     /\ NextTx

SpecSubmit == InitSubmit /\ [][NextSubmit]_vars

-----------------------------------------------------------------------------
(* Properties of transaction submission *)

Polling == txCall # <<>> /\ txCall.pc \in {"wait", "check", "request", "sleep", "waited"}

\* C15: nothing is retried: a swap or transfer command hands at most one transaction to
\* the signer, a call of deploySafe, deployRolesModifier or executeSwapWithRole makes at
\* most one eth_sendTransaction request, and the receipt polling that follows makes none,
\* whatever the outcome of the transaction.
C15_NothingRetried ==
  /\ [](/\ Len(last.sent) <= 1
        /\ txCall # <<>> => txCall.sent <= 1)
  /\ [][Polling => txCall'.sent = txCall.sent]_vars

\* C15 witness: a library call submitted its transaction once, polled until the timeout
\* and threw, the transaction still pending.
C15_Witness ==
  /\ txCall # <<>> /\ txCall.sent = 1 /\ txCall.node = "pending"
  /\ txCall.result = Throws("Transaction confirmation timeout")

-----------------------------------------------------------------------------
(* The /api/safe route: GET reads address and chainId from the query string, POST
   from the JSON body.  A value read from JSON keeps its type: a number, a string
   or null.  SAFE_TX_SERVICE_URLS is an object literal: a key it does not own is
   looked up on Object.prototype. *)

DEFAULT_CHAIN_ID == 11155111

SEPOLIA_URL == "https://safe-transaction-sepolia.safe.global"
MAINNET_URL == "https://safe-transaction-mainnet.safe.global"

Absent == [type |-> "undefined"]
JsonNull == [type |-> "null"]
JsonNumber(n) == [type |-> "number", number |-> n]
JsonString(str) == [type |-> "string", value |-> str]

sConstructor == <<"c","o","n","s","t","r","u","c","t","o","r">>
sSepolia == <<"1","1","1","5","5","1","1","1">>

\* Number(string): 0 for the empty string, the value of a run of digits, NaN otherwise
Number(str) ==
  IF str = <<>> THEN Some(0)
  ELSE IF \A i \in DOMAIN str : IsDigit(str[i]) THEN Some(DecimalValue(str))
  ELSE NaN

\* the names every object inherits from Object.prototype
IsInheritedName(str) == str \in {sConstructor, <<"t","o","S","t","r","i","n","g">>}

\* SAFE_TX_SERVICE_URLS[chainId]: "" for undefined
serviceUrl(chainId) ==
  CASE chainId.type = "number" ->
         IF chainId.number = Some(11155111) THEN SEPOLIA_URL
         ELSE IF chainId.number = Some(1) THEN MAINNET_URL
         ELSE ""
    [] chainId.type = "string" ->
         IF chainId.value = sSepolia THEN SEPOLIA_URL
         ELSE IF chainId.value = <<"1">> THEN MAINNET_URL
         ELSE IF IsInheritedName(chainId.value) THEN "function Object() { [native code] }"
         ELSE ""
    [] OTHER -> ""

\* Number(searchParams.get('chainId') ?? 11155111)
queryChainId(param) ==
  IF param.type = "undefined" THEN JsonNumber(Some(DEFAULT_CHAIN_ID))
  ELSE JsonNumber(Number(param.value))

\* const { safeAddress, chainId = 11155111 } = body
bodyChainId(value) == IF value.type = "undefined" THEN JsonNumber(Some(DEFAULT_CHAIN_ID)) ELSE value

\* fetch parses its URL before it sends anything
IsUrl(base) == base \in {SEPOLIA_URL, MAINNET_URL}

RouteAddresses == {Absent, JsonString(<<>>), JsonString(aLow)}

RouteChainIds(method) ==
  IF method = "GET"
  THEN {Absent, JsonString(sSepolia), JsonString(<<"1">>), JsonString(<<"5">>), JsonString(<<>>),
        JsonString(sConstructor)}
  ELSE {Absent, JsonNumber(Some(11155111)), JsonNumber(Some(1)), JsonNumber(Some(5)),
        JsonString(<<"1">>), JsonString(sConstructor), JsonNull}

\* the status of the upstream response; 0: fetch throws
UpstreamStatuses == {0, 200, 404, 422, 503}

InitRoute ==
  /\ InitCli /\ argv = <<>> /\ call = None
  /\ ui = None /\ chain = None /\ storage = None /\ op = None /\ safeTxs = <<>>
  /\ txCall = <<>> /\ reads = <<>> /\ procs = <<>> /\ detect = <<>> /\ NoMore
  /\ \E method \in {"GET", "POST"} : \E address \in RouteAddresses :
     \E chainId \in RouteChainIds(method) : \E bodyParses \in BOOLEAN :
       /\ method = "GET" => bodyParses
       /\ route = [method |-> method, address |-> address, chainId |-> chainId,
                   bodyParses |-> bodyParses, pc |-> "received", requests |-> <<>>, status |-> 0,
                   upstream |-> 0]

RouteRest == <<walletFile, configFile, poolsFile, last, argv, call, ui, chain, storage, op, safeTxs,
               txCall, reads, procs, detect, more>>

\* the handler from the checks to the fetch
Forward(safeAddress, chainId) ==
  LET baseUrl == serviceUrl(chainId)
  IN IF safeAddress.type = "undefined" \/ safeAddress.value = <<>>
     THEN [route EXCEPT !.pc = "answered", !.status = 400]
     ELSE IF baseUrl = ""
     THEN [route EXCEPT !.pc = "answered", !.status = 400]
     ELSE IF ~IsUrl(baseUrl)
     THEN [route EXCEPT !.pc = "answered", !.status = 500]
     ELSE [route EXCEPT !.pc = "fetching", !.requests = Append(@, [base |-> baseUrl, safe |-> safeAddress.value])]

GET ==
  /\ route.method = "GET" /\ route.pc = "received"
  /\ route' = Forward(route.address, queryChainId(route.chainId))
  /\ UNCHANGED RouteRest

\* await request.json() is outside the try block: a body that does not parse ends the
\* handler with an exception, which the framework answers with 500
POST ==
  /\ route.method = "POST" /\ route.pc = "received"
  /\ route' = IF ~route.bodyParses THEN [route EXCEPT !.pc = "answered", !.status = 500]
               ELSE Forward(route.address, bodyChainId(route.chainId))
  /\ UNCHANGED RouteRest

\* the fetch settles: it throws, or res.ok is false, or the body is read and returned
upstreamAnswers ==
  /\ route.pc = "fetching"
  /\ \E upstream \in UpstreamStatuses : \E jsonParses \in BOOLEAN :
       route' = [route EXCEPT !.pc = "answered", !.status =
                   IF upstream = 0 THEN 500
                   ELSE IF upstream < 200 \/ upstream > 299 THEN upstream
                   ELSE IF jsonParses THEN 200 ELSE 500,
                   !.upstream = upstream]
  /\ UNCHANGED RouteRest

NextRoute ==
  \/ GET
  \/ POST
  \/ upstreamAnswers

SpecRoute == InitRoute /\ [][NextRoute]_vars

\* what the request asks for, read as the claim reads it
AddressMissing == route.address.type = "undefined" \/ route.address.value = <<>>

RequestedChain ==
  CASE route.chainId.type = "undefined" -> Some(DEFAULT_CHAIN_ID)
    [] route.chainId.type = "number" -> route.chainId.number
    [] route.chainId.type = "string" -> Number(route.chainId.value)
    [] OTHER -> NaN

ChainSupported == RequestedChain \in {Some(11155111), Some(1)}

ServiceOfChain == IF RequestedChain = Some(1) THEN MAINNET_URL ELSE SEPOLIA_URL

(* C16: a request whose Safe address is missing or whose chain id is not a supported
   chain is answered with 400 and nothing is sent to the Safe Transaction Service; any
   other request (the chain id is 11155111 when omitted) is forwarded as exactly one
   request to the service of its chain, a non-OK upstream status becomes the response
   status, and a throwing upstream request is answered with 500. *)
C16_ProxyContract ==
  route.bodyParses =>
    /\ (AddressMissing \/ ~ChainSupported) =>
          /\ route.requests = <<>>
          /\ route.pc = "answered" => route.status = 400
    /\ (~AddressMissing /\ ChainSupported /\ route.pc # "received") =>
          /\ Len(route.requests) = 1
          /\ route.requests[1].base = ServiceOfChain
          /\ (route.pc = "answered" /\ route.upstream = 0) => route.status = 500
          /\ (route.pc = "answered" /\ route.upstream > 299) => route.status = route.upstream

-----------------------------------------------------------------------------
(* The fee of a swap: pool and swap commands on a machine whose wallet and
   configuration are in place *)

\* swap <IN> <OUT> <AMOUNT> [FEE], with and without a fee, in both orders of the pair
FeeSwapArgLists ==
  {<<sUSDC, sweth, <<"1">>>>, <<sweth, sUSDC, <<"1">>>>, <<sUSDC, <<"1">>, wTo, sweth>>,
   <<sUSDC, sUNI, <<"1">>>>,
   <<sUSDC, sweth, <<"1">>, fee500>>, <<sUSDC, sUNI, <<"1">>, fee500>>,
   <<sUSDC, sweth, <<"1">>, <<"7">>>>,
   <<sUSDC, sweth, <<"1">>, <<"0">>>>, <<sUSDC, sUNI, <<"1">>, <<"x">>>>}

RunFeeSwap == \E args \in FeeSwapArgLists : Run(<<wSwap>> \o args)

InitFee ==
  /\ walletFile = AgentWallet /\ configFile = AgentConfig /\ poolsFile = None /\ last = NoResult
  /\ InitRest

NextFee ==
  /\ \/ RunPool
     \/ RunFeeSwap
  /\ UNCHANGED <<call, ui, chain, storage, op, safeTxs, libCalls>>

SpecFee == InitFee /\ [][NextFee]_vars

SwapRan == last.cmd = "swap"
FeeArgument == swapArgs(argv)[4]
SentFee == last.sent[1].data.data.fee

\* the saved pools whose two symbols are the requested pair, in either order
MatchingPools ==
  {i \in DOMAIN loadPools :
     {toUpperCase(loadPools[i].tokenA.symbol), toUpperCase(loadPools[i].tokenB.symbol)}
       = {toUpperCase(swapArgs(argv)[1]), toUpperCase(swapArgs(argv)[2])}}

FirstMatchingPool == loadPools[CHOOSE i \in MatchingPools : \A j \in MatchingPools : i <= j]

(* C17: a swap given no fee that sends a transaction sends it with the fee of the first
   saved pool whose two symbols are the requested pair in either order, compared without
   regard to case, and without such a pool it exits with code 1 and sends nothing; a swap
   given a fee sends its transaction with that fee and never stops for want of a saved
   pool. *)
C17_FeeLookup ==
  SwapRan =>
    /\ ~Truthy(FeeArgument) =>
          /\ MatchingPools = {} => last.exit = 1 /\ last.sent = <<>>
          /\ last.sent # <<>> => SentFee = FirstMatchingPool.fee
    /\ Truthy(FeeArgument) =>
          /\ last.sent # <<>> => Some(SentFee) = parseInt(FeeArgument)
          /\ last.out # <<"No pool found for this pair">>

-----------------------------------------------------------------------------
(* Properties of the stored fee tiers *)

StoredFees == {PoolsOf(poolsFile)[i].fee : i \in DOMAIN PoolsOf(poolsFile)}

\* this step is a pool command without a fee argument that stores a record
StoresWithoutFee ==
  /\ Ran(wPool) /\ ~Truthy(Arg(argv', 4))
  /\ Len(PoolsOf(poolsFile')) = Len(PoolsOf(poolsFile)) + 1

(* C18: every stored pool record has a fee of 100, 500, 3000 or 10000 after any sequence
   of commands, and a pool command without a fee argument stores its record with fee
   3000. *)
C18_StoredFeeTiers ==
  /\ [](StoredFees \subseteq AllowedFees)
  /\ [][StoresWithoutFee => PoolsOf(poolsFile')[Len(PoolsOf(poolsFile'))].fee = 3000]_vars

\* two pools are stored, one with a fee argument and the last one without
C18_Witness ==
  /\ last.cmd = "pool" /\ last.out[1] = "Pool saved!" /\ ~Truthy(Arg(argv, 4))
  /\ StoredFees = {500, 3000}

-----------------------------------------------------------------------------
(* Properties of deploySafe *)

DeployCall == txCall # <<>> /\ txCall.fn = "deploySafe"
DeployReturned == DeployCall /\ txCall.pc = "done" /\ ~txCall.result[1].throws
ConfirmedReceipt == txCall.receipt # None /\ txCall.receipt[1].status \notin {"", "0x0"}

\* this step is the isSafeDeployed check finding the Safe deployed
FoundDeployed == DeployCall /\ txCall.pc = "called" /\ txCall.deployed /\ txCall'.pc # "called"

(* C19: deploySafe never sends more than one transaction; when it finds the predicted
   Safe deployed it ends at once, having sent none; once it goes on to deploy it has sent
   exactly one by the time it waits; whenever it returns, it returns the predicted
   address, and if it sent a transaction it has seen a receipt whose status is present
   and not 0x0, so that a reverted or unconfirmed deployment ends in an exception. *)
C19_DeployOnceAndConfirmed ==
  /\ [](DeployCall =>
          /\ txCall.sent <= 1
          /\ txCall.pc \in {"wait", "check", "request", "sleep", "waited"} => txCall.sent = 1
          /\ DeployReturned =>
                /\ txCall.result[1].value = "predictedAddress"
                /\ txCall.sent = 0 => txCall.deployed
                /\ txCall.sent = 1 => ConfirmedReceipt /\ txCall.node = "0x1"
          /\ (txCall.pc = "done" /\ txCall.sent = 1 /\ txCall.node # "0x1") => txCall.result[1].throws)
  /\ [][FoundDeployed => txCall'.pc = "done" /\ txCall'.sent = 0]_vars

\* a deployment that was still pending at the first poll and then confirmed
C19_Witness ==
  /\ DeployReturned /\ txCall.sent = 1 /\ txCall.polls >= 2 /\ ConfirmedReceipt

-----------------------------------------------------------------------------
(* detectRolesModifierState over a Safe whose modules answer owner() and avatar()
   each in their own way.  An address has two hex digits here, so a 32-byte word is
   "0x", two digits of padding and the address digits. *)

MaxModules == 2

\* the addresses of the modules, by position in the Safe's list
ModuleAt(i) == <<"0", "x", "f", Digits[i + 1]>>

\* the word eth_call returns for a function that returns this address (hex in lower case)
wordOf(address) == <<"0", "x", "0", "0">> \o SubSeq(toLowerCase(address), 3, Len(address))

\* eth_call: None when the call reverts or the request fails, else the result text:
\* empty data, the Safe, another address, fewer characters than an address
CallAnswers == {None, Some(<<"0", "x">>), Some(wordOf(aLow)), Some(wordOf(cLow)), Some(<<"0", "x", "a">>)}

\* if (!result || result === '0x' || result.length < 42) return null;
\* return '0x' + result.slice(result.length - 40)
parseAddressResult(result) ==
  IF result = <<>> \/ result = <<"0", "x">> \/ Len(result) < Len(aLow) THEN None
  ELSE Some(<<"0", "x">> \o SubSeq(result, Len(result) - (Len(aLow) - 2) + 1, Len(result)))

\* mutant: the parsed address is compared as it is written
addressMatchesExactCase(parsed, safeAddress) == parsed # None /\ parsed[1] = safeAddress

\* ownerAddr?.toLowerCase() === safeAddress.toLowerCase()
addressMatches(parsed, safeAddress) == parsed # None /\ toLowerCase(parsed[1]) = toLowerCase(safeAddress)

noState ==
  [isDeployed |-> FALSE, isEnabled |-> FALSE, isTargetScoped |-> FALSE, isConfigured |-> FALSE,
   rolesModifierAddress |-> None, currentStep |-> "deploy"]

\* mutant: the modifier counts as configured as soon as the target is scoped
foundStateScopedOnly(moduleAddr) ==
  LET targetScoped == loadTargetScoped(moduleAddr)
      isConfigured == targetScoped
  IN [isDeployed |-> TRUE, isEnabled |-> TRUE, isTargetScoped |-> targetScoped,
      isConfigured |-> isConfigured, rolesModifierAddress |-> Some(moduleAddr),
      currentStep |-> IF isConfigured THEN "done" ELSE "configure"]

\* the state returned for the module that was found
foundState(moduleAddr) ==
  LET targetScoped == loadTargetScoped(moduleAddr)
      isConfigured == targetScoped /\ loadRoleMembers(moduleAddr) # <<>>
  IN [isDeployed |-> TRUE, isEnabled |-> TRUE, isTargetScoped |-> targetScoped,
      isConfigured |-> isConfigured, rolesModifierAddress |-> Some(moduleAddr),
      currentStep |-> IF isConfigured THEN "done" ELSE "configure"]

ModuleLists ==
  UNION {[1..n -> [owner : CallAnswers, avatar : CallAnswers]] : n \in 0..MaxModules}

\* localStorage as earlier visits left it: per modifier a member list and a flag
DetectStorages ==
  {[members |-> [k \in {ModuleAt(i) : i \in 1..(MaxModules + 1)} |-> IF k \in withMembers THEN <<aLow>> ELSE <<>>],
    scoped |-> scoped] :
     withMembers \in {{}, {ModuleAt(1)}, {ModuleAt(2)}}, scoped \in {{}, {ModuleAt(1)}, {ModuleAt(2)}}}

InitDetect ==
  /\ InitCli /\ argv = <<>> /\ call = None
  /\ ui = None /\ chain = None /\ op = None /\ safeTxs = <<>>
  /\ txCall = <<>> /\ reads = <<>> /\ procs = <<>> /\ route = <<>> /\ NoMore
  /\ storage \in DetectStorages
  /\ \E safeAddress \in {aLow, aMixed} : \E modules \in ModuleLists :
       detect = [safeAddress |-> safeAddress, modules |-> modules, pc |-> "called", i |-> 0,
                 ownerResult |-> None, calls |-> <<>>, safeInfo |-> "", result |-> None]

DetectRest == <<walletFile, configFile, poolsFile, last, argv, call, ui, chain, storage, op, safeTxs,
                txCall, reads, procs, route, more>>

\* the for loop goes on to the next module, or ends with noState
nextModule(d) ==
  IF d.i < Len(d.modules)
  THEN [d EXCEPT !.i = @ + 1, !.pc = "owner", !.ownerResult = None]
  ELSE [d EXCEPT !.pc = "done", !.result = Returns(noState)]

\* await getSafeInfo(...): it throws, or the module list is empty, or the loop starts
getSafeInfo ==
  /\ detect.pc = "called"
  /\ \E sdk \in RpcOutcomes :
       detect' = IF sdk = "throws"
                 THEN [detect EXCEPT !.pc = "done", !.safeInfo = sdk, !.result = Returns(noState)]
                 ELSE nextModule([detect EXCEPT !.safeInfo = sdk])
  /\ UNCHANGED DetectRest

\* await ethCall(provider, moduleAddr, 'owner')
ownerCall ==
  /\ detect.pc = "owner"
  /\ LET answer == detect.modules[detect.i].owner
         called == [detect EXCEPT !.calls = Append(@, <<detect.i, "owner">>)]
     IN detect' = IF answer = None THEN nextModule(called)
                  ELSE [called EXCEPT !.pc = "avatar", !.ownerResult = answer]
  /\ UNCHANGED DetectRest

\* await ethCall(provider, moduleAddr, 'avatar'), then the comparison with the Safe address
avatarCall ==
  /\ detect.pc = "avatar"
  /\ LET answer == detect.modules[detect.i].avatar
         called == [detect EXCEPT !.calls = Append(@, <<detect.i, "avatar">>)]
     IN detect' = IF answer = None THEN nextModule(called)
                  ELSE IF /\ addressMatches(parseAddressResult(detect.ownerResult[1]), detect.safeAddress)
                          /\ addressMatches(parseAddressResult(answer[1]), detect.safeAddress)
                  THEN [called EXCEPT !.pc = "done", !.result = Returns(foundState(ModuleAt(detect.i)))]
                  ELSE nextModule(called)
  /\ UNCHANGED DetectRest

NextDetect ==
  \/ getSafeInfo
  \/ ownerCall
  \/ avatarCall

SpecDetect == InitDetect /\ [][NextDetect]_vars

-----------------------------------------------------------------------------
(* Properties of the detection *)

\* the call answered with a word that holds the Safe address, in whatever case
ReturnsSafe(answer) ==
  answer # None /\ toLowerCase(answer[1]) = wordOf(detect.safeAddress)

Qualifying == {i \in DOMAIN detect.modules :
                 ReturnsSafe(detect.modules[i].owner) /\ ReturnsSafe(detect.modules[i].avatar)}

FirstQualifying == CHOOSE i \in Qualifying : \A j \in Qualifying : i <= j

DetectDone == detect # <<>> /\ detect.pc = "done"

(* C20: detectRolesModifierState never throws; when reading the Safe fails, the Safe has
   no modules or no module answers both owner() and avatar() with the Safe address
   (compared without regard to case) it returns the empty state, with no modifier
   address and currentStep 'deploy'; otherwise it reports the first such module of the
   list, passing over the modules before it whose calls fail or return something else. *)
C20_FirstQualifyingModule ==
  DetectDone =>
    /\ ~detect.result[1].throws
    /\ (detect.safeInfo = "throws" \/ Qualifying = {}) =>
          /\ detect.result[1].value = noState
          /\ noState.rolesModifierAddress = None /\ noState.currentStep = "deploy"
    /\ (detect.safeInfo # "throws" /\ Qualifying # {}) =>
          /\ detect.result[1].value.rolesModifierAddress = Some(ModuleAt(FirstQualifying))
          /\ detect.result[1].value.isDeployed /\ detect.result[1].value.isEnabled
          /\ detect.result[1].value.currentStep \in {"configure", "done"}

\* the Safe address is typed in mixed case; the first module fails or answers with
\* another address and the second one is the modifier
C20_Witness ==
  /\ DetectDone /\ detect.safeAddress = aMixed /\ Len(detect.modules) = 2
  /\ Qualifying = {2}
  /\ detect.result[1].value.rolesModifierAddress = Some(ModuleAt(2))
  /\ detect.result[1].value.currentStep = "done"

DetectedState == detect.result[1].value
Reported == DetectedState.rolesModifierAddress

(* C21: in every state detectRolesModifierState returns, isDeployed and isEnabled are
   equal and hold exactly when a modifier address is reported; isConfigured holds exactly
   when a modifier is reported whose stored target-scoped flag is set and whose stored
   member list is not empty; currentStep is 'deploy' without a modifier, 'done' when
   isConfigured and 'configure' otherwise, never 'enable'. *)
C21_ReturnedStateConsistent ==
  DetectDone =>
    /\ DetectedState.isDeployed = DetectedState.isEnabled
    /\ DetectedState.isDeployed <=> Reported # None
    /\ DetectedState.isConfigured <=>
          /\ Reported # None
          /\ loadTargetScoped(Reported[1]) /\ loadRoleMembers(Reported[1]) # <<>>
    /\ DetectedState.currentStep =
          IF Reported = None THEN "deploy"
          ELSE IF DetectedState.isConfigured THEN "done" ELSE "configure"
    /\ DetectedState.currentStep # "enable"

\* a modifier is reported whose target is scoped in storage but which has no stored member
C21_Witness ==
  /\ DetectDone /\ Reported # None
  /\ loadTargetScoped(Reported[1]) /\ loadRoleMembers(Reported[1]) = <<>>
  /\ DetectedState.currentStep = "configure"

-----------------------------------------------------------------------------
(* findPools by its data: what the Factory answers for each fee tier, what each pool
   answers for its liquidity, and the list that is returned.  A uint128 does not fit
   the model checker's integers: a bigint is kept as hi * 2^28 + lo, and a double holds
   the 53 most significant bits of it.  An address has two hex digits, a word six
   characters. *)

FEE_TIER_LIST == <<100, 500, 3000, 10000>>

ZERO_ADDRESS == <<"0", "x", "0", "0">>

\* the pool the Factory has for the i-th fee tier, as the Factory writes it
PoolAt(i) == <<"0", "x", "A", Digits[i + 1]>>

Zeros(n) == [i \in 1..n |-> "0"]

\* getPool answers: the zero address, the pool of the tier, or no data at all (no
\* Factory at this address on the connected network)
FactoryAnswers(i) == {<<"0", "x">> \o Zeros(4), <<"0", "x", "0", "0">> \o SubSeq(PoolAt(i), 3, 4), <<"0", "x">>}

\* liquidity() answers: no data, 1, 2, 2^53, 2^53 + 1
LiquidityAnswers ==
  {<<"0", "x">>, <<"0", "x", "1">>, <<"0", "x", "2">>,
   <<"0", "x", "2">> \o Zeros(13), <<"0", "x", "2">> \o Zeros(12) \o <<"1">>}

\* if (hex.length >= 66) return '0x' + hex.slice(26).toLowerCase(); return hex.toLowerCase()
parseAddress(hex) ==
  IF Len(hex) >= 6 THEN <<"0", "x">> \o toLowerCase(SubSeq(hex, 5, Len(hex)))
  ELSE toLowerCase(hex)

HexVal(c) == IF IsDigit(c) THEN DigitVal(c) ELSE 9 + Pos(LowerChar[c], LowerAlpha)

RECURSIVE HexValue(_)
HexValue(ds) ==
  IF ds = <<>> THEN 0 ELSE 16 * HexValue(SubSeq(ds, 1, Len(ds) - 1)) + HexVal(ds[Len(ds)])

\* BigInt("0x..."): the last seven hex digits are lo, the digits before them hi
BigInt(hex) ==
  LET ds == SubSeq(hex, 3, Len(hex))
      cut == IF Len(ds) > 7 THEN Len(ds) - 7 ELSE 0
  IN [hi |-> HexValue(SubSeq(ds, 1, cut)), lo |-> HexValue(SubSeq(ds, cut + 1, Len(ds)))]

\* if (!hex || hex === '0x' || hex === '0x0') return BigInt(0); return BigInt(hex)
parseBigIntHex(hex) ==
  IF hex = <<>> \/ hex = <<"0", "x">> \/ hex = <<"0", "x", "0">> THEN [hi |-> 0, lo |-> 0]
  ELSE BigInt(hex)

RECURSIVE BitLength(_)
BitLength(n) == IF n = 0 THEN 0 ELSE 1 + BitLength(n \div 2)

\* Number(bigint): the nearest double, ties to the even mantissa
NumberOfBigInt(v) ==
  LET shift == IF BitLength(v.hi) > 25 THEN BitLength(v.hi) - 25 ELSE 0
      unit == 2 ^ shift
      rem == v.lo % unit
      down == v.lo - rem
      odd == (down \div unit) % 2 = 1
      up == shift > 0 /\ (2 * rem > unit \/ (2 * rem = unit /\ odd))
      lo == IF up THEN down + unit ELSE down
  IN IF lo = 268435456 THEN [hi |-> v.hi + 1, lo |-> 0] ELSE [hi |-> v.hi, lo |-> lo]

\* a >= b for two numbers kept as hi and lo
AtLeast(a, b) == a.hi > b.hi \/ (a.hi = b.hi /\ a.lo >= b.lo)

\* poolDetails.sort((a, b) => b.liquidityNum - a.liquidityNum): stable, descending
RECURSIVE sortPoolDetails(_)
sortPoolDetails(details) ==
  IF details = <<>> THEN <<>>
  ELSE LET sorted == sortPoolDetails(SubSeq(details, 1, Len(details) - 1))
           x == details[Len(details)]
           n == Cardinality({k \in DOMAIN sorted : AtLeast(sorted[k].liquidityNum, x.liquidityNum)})
       IN SubSeq(sorted, 1, n) \o <<x>> \o SubSeq(sorted, n + 1, Len(sorted))

\* results.filter((r) => r.poolAddress !== '0x0000000000000000000000000000000000000000')
filterExisting(results) == SelectSeq(results, LAMBDA r : r.poolAddress # ZERO_ADDRESS)

\* the record a detail task builds from the liquidity its pool answers
poolInfo(r, liqHex) ==
  [poolAddress |-> r.poolAddress, fee |-> r.fee, liquidity |-> parseBigIntHex(liqHex),
   liquidityNum |-> NumberOfBigInt(parseBigIntHex(liqHex))]

InitFinder ==
  /\ InitCli /\ argv = <<>> /\ call = None
  /\ ui = None /\ chain = None /\ storage = None /\ op = None /\ safeTxs = <<>>
  /\ txCall = <<>> /\ reads = <<>> /\ procs = <<>> /\ route = <<>> /\ detect = <<>>
  /\ formatted = <<>> /\ predictor = <<>>
  /\ \E factory \in [1..4 -> UNION {FactoryAnswers(i) : i \in 1..4}] :
     \E liquidity \in [1..4 -> LiquidityAnswers] :
       /\ \A i \in 1..4 : factory[i] \in FactoryAnswers(i)
       /\ \A i \in 1..4 : Len(factory[i]) < 6 \/ parseAddress(factory[i]) = ZERO_ADDRESS
                               => liquidity[i] = <<"0", "x">>
       /\ finder = [factory |-> factory, liquidity |-> liquidity, pc |-> "called",
                    existingPools |-> <<>>, result |-> None]

FinderRest == <<walletFile, configFile, poolsFile, last, argv, call, ui, chain, storage, op, safeTxs,
                txCall, reads, procs, route, detect, formatted, predictor>>

\* the getPool calls and their Promise.all, then the filter
findPoolsGetPool ==
  /\ finder.pc = "called"
  /\ \E rpc \in RpcOutcomes :
       LET results == [i \in 1..4 |-> [fee |-> FEE_TIER_LIST[i], tier |-> i,
                                       poolAddress |-> parseAddress(finder.factory[i])]]
           existing == filterExisting(results)
       IN finder' = IF rpc = "throws"
                    THEN [finder EXCEPT !.pc = "done", !.result = Throws("getPool failed")]
                    ELSE IF Len(existing) = 0
                    THEN [finder EXCEPT !.pc = "done", !.result = Returns(<<>>)]
                    ELSE [finder EXCEPT !.pc = "details", !.existingPools = existing]
  /\ UNCHANGED FinderRest

\* the detail tasks and their Promise.all, then the sort
findPoolsDetails ==
  /\ finder.pc = "details"
  /\ \E rpc \in RpcOutcomes :
       LET existing == finder.existingPools
           poolDetails == [k \in DOMAIN existing |-> poolInfo(existing[k], finder.liquidity[existing[k].tier])]
       IN finder' = IF rpc = "throws"
                    THEN [finder EXCEPT !.pc = "done", !.result = Throws("detail failed")]
                    ELSE [finder EXCEPT !.pc = "done", !.result = Returns(sortPoolDetails(poolDetails))]
  /\ UNCHANGED FinderRest

NextFinder ==
  \/ findPoolsGetPool
  \/ findPoolsDetails

SpecFinder == InitFinder /\ [][NextFinder]_vars

\* the tiers for which the Factory reports an address that is not the zero address
ReportedTiers ==
  {i \in 1..4 : Len(finder.factory[i]) = 6 /\ SubSeq(finder.factory[i], 5, 6) # <<"0", "0">>}

FinderReturned == finder # <<>> /\ finder.pc = "done" /\ ~finder.result[1].throws
FoundPools == finder.result[1].value

(* C22: the list findPools returns has one pool for each fee tier for which the Factory
   reports an address other than the zero address, and no other entry (it is empty when
   every tier reports the zero address); and it is ordered by liquidity, highest first. *)
C22_ExistingPoolsByLiquidity ==
  FinderReturned =>
    /\ Len(FoundPools) = Cardinality(ReportedTiers)
    /\ \A i \in ReportedTiers : \E k \in DOMAIN FoundPools :
          /\ FoundPools[k].fee = FEE_TIER_LIST[i]
          /\ FoundPools[k].poolAddress = toLowerCase(PoolAt(i))
    /\ \A j, k \in DOMAIN FoundPools :
          j < k => AtLeast(FoundPools[j].liquidity, FoundPools[k].liquidity)

-----------------------------------------------------------------------------
(* Properties of the member management *)

\* the handlers of the given name that this step ends without an exception
Succeeded(name) == {h \in op.pending \ op'.pending : h.handler = name /\ ui'.status = "success"}

(* C23: when changeSwapRoleMember goes through, the Safe was handed one batch of two
   assignRoles calls to the modifier, the first revoking the old member and the second
   granting the new one, and the stored member list of the modifier then holds the new
   member and, unless the two are the same address, not the old one. *)
C23_RevokeThenAssign ==
  [][\A h \in Succeeded("handleChangeMember") :
       LET stored == loadRoleMembersIn(storage', h.rolesAddress[1])
       IN /\ safeTxs' = <<assignRolesCall(h.rolesAddress[1], h.member, FALSE),
                          assignRolesCall(h.rolesAddress[1], h.newMember, TRUE)>>
          /\ Includes(stored, toLowerCase(h.newMember))
          /\ toLowerCase(h.member) # toLowerCase(h.newMember) => ~Includes(stored, toLowerCase(h.member))]_vars

\* the member was changed from one address to another and the batch was mined
C23_Witness ==
  /\ ui # None /\ ui.rolesAddress # None /\ ui.status = "success"
  /\ Len(safeTxs) = 2
  /\ safeTxs[1].fn = "assignRoles" /\ ~safeTxs[1].memberOf
  /\ safeTxs[2].fn = "assignRoles" /\ safeTxs[2].memberOf
  /\ safeTxs[1].member # safeTxs[2].member
  /\ loadRoleMembers(ui.rolesAddress[1]) = <<toLowerCase(safeTxs[2].member)>>
  /\ chain.members[toLowerCase(safeTxs[2].to)] = {toLowerCase(safeTxs[2].member)}

-----------------------------------------------------------------------------
(* formatError.  A JavaScript value is a record with its type; an object or an Error
   instance has the six properties formatError reads, each a value or undefined.  A
   returned string is Text(s); the string JSON.stringify builds is JsonText(object). *)

Str(s) == [type |-> "string", text |-> s]
Num(n) == [type |-> "number", n |-> n]
Obj(message) == [type |-> "object", message |-> message]

Text(s) == [text |-> s]
JsonText(object) == [json |-> object]

IsString(v) == v.type = "string"
IsNonEmptyString(v) == v.type = "string" /\ v.text # ""

\* !err
IsFalsy(err) ==
  \/ err.type \in {"undefined", "null"}
  \/ err.type = "string" /\ err.text = ""
  \/ err.type = "number" /\ err.n = 0

\* the values a thrown error or a rejection can have in one of its properties
MessageValues == {Absent, Str(""), Str("message"), Num(7)}
ReasonValues == {Absent, Str(""), Str("reason")}
ErrorValues == {Absent, Obj(Str("error.message")), Obj(Str("")), Obj(Absent), Str("error")}
DataValues == {Absent, Obj(Str("data.message"))}
ShortMessageValues == {Absent, Str(""), Str("shortMessage")}
CodeValues == {Absent, Num(4001), Num(-32000), Num(-32603), Num(1), Str("4001")}

\* objects and Error instances; an Error instance always has a string message; an
\* object may hold a reference to itself, which JSON.stringify refuses
ErrorObjects ==
  {[type |-> type, message |-> message, reason |-> reason, error |-> error, data |-> data,
    shortMessage |-> shortMessage, code |-> code, circular |-> circular] :
     type \in {"Error", "object"}, message \in MessageValues, reason \in ReasonValues,
     error \in ErrorValues, data \in DataValues, shortMessage \in ShortMessageValues,
     code \in CodeValues, circular \in BOOLEAN}

ErrorShapes ==
  {e \in ErrorObjects : (e.type = "Error" => IsString(e.message) /\ ~e.circular)}
  \cup {Absent, [type |-> "null"], Str(""), Str("plain text"), Num(0), Num(5)}

\* mutant: code 4001 is reported as an internal error
codeTextSwapped(code) ==
  IF code = Num(4001) THEN Some("Internal JSON-RPC error")
  ELSE IF code = Num(-32000) THEN Some("Transaction failed (insufficient funds or gas)")
  ELSE IF code = Num(-32603) THEN Some("Transaction rejected by user")
  ELSE None

\* if (e.code === 4001) ...; if (e.code === -32000) ...; if (e.code === -32603) ...
codeText(code) ==
  IF code = Num(4001) THEN Some("Transaction rejected by user")
  ELSE IF code = Num(-32000) THEN Some("Transaction failed (insufficient funds or gas)")
  ELSE IF code = Num(-32603) THEN Some("Internal JSON-RPC error")
  ELSE None

\* the properties JSON.stringify writes: an undefined property is left out
HasJsonProperty(e) ==
  \E v \in {e.message, e.reason, e.error, e.data, e.shortMessage, e.code} : v # Absent

formatError(err, fallback) ==
  IF IsFalsy(err) THEN Text(fallback)
  ELSE IF err.type = "Error"
  THEN IF err.message.text # "" THEN Text(err.message.text) ELSE Text(fallback)
  ELSE IF err.type = "object"
  THEN IF IsNonEmptyString(err.message) THEN Text(err.message.text)
       ELSE IF IsNonEmptyString(err.reason) THEN Text(err.reason.text)
       ELSE IF err.error.type = "object" /\ IsString(err.error.message) THEN Text(err.error.message.text)
       ELSE IF err.data.type = "object" /\ IsString(err.data.message) THEN Text(err.data.message.text)
       ELSE IF IsString(err.shortMessage) THEN Text(err.shortMessage.text)
       ELSE IF codeText(err.code) # None THEN Text(codeText(err.code)[1])
       ELSE IF ~err.circular /\ HasJsonProperty(err) THEN JsonText(err)
       ELSE Text(fallback)
  ELSE IF err.type = "string" THEN Text(err.text)
  ELSE Text(fallback)

DEFAULT_FALLBACK == "Something went wrong"

InitFormat ==
  /\ InitCli /\ argv = <<>> /\ call = None
  /\ ui = None /\ chain = None /\ storage = None /\ op = None /\ safeTxs = <<>>
  /\ txCall = <<>> /\ reads = <<>> /\ procs = <<>> /\ route = <<>> /\ detect = <<>>
  /\ finder = <<>> /\ predictor = <<>>
  /\ \E err \in ErrorShapes : \E fallback \in {DEFAULT_FALLBACK, "Failed to deploy"} :
       formatted = [err |-> err, fallback |-> fallback, result |-> None]

\* the call returns
formatErrorReturns ==
  /\ formatted.result = None
  /\ formatted' = [formatted EXCEPT !.result = Some(formatError(formatted.err, formatted.fallback))]
  /\ UNCHANGED <<walletFile, configFile, poolsFile, last, argv, call, ui, chain, storage, op, safeTxs,
                 txCall, reads, procs, route, detect, finder, predictor>>

NextFormat == formatErrorReturns

SpecFormat == InitFormat /\ [][NextFormat]_vars

-----------------------------------------------------------------------------
(* Properties of formatError *)

\* the first source of a list that yields a message, or the fallback
RECURSIVE FirstOf(_, _)
FirstOf(sources, otherwise) ==
  IF sources = <<>> THEN otherwise
  ELSE IF sources[1] # None THEN sources[1][1]
  ELSE FirstOf(Tail(sources), otherwise)

When(applies, message) == IF applies THEN Some(message) ELSE None

IsPlainObject(err) == err.type = "object"

\* the sources between the message of an Error instance and the JSON text
ObjectSources(err) ==
  <<When(IsPlainObject(err) /\ IsNonEmptyString(err.message), Text(err.message.text)),
    When(IsPlainObject(err) /\ IsNonEmptyString(err.reason), Text(err.reason.text)),
    When(IsPlainObject(err) /\ err.error.type = "object" /\ IsString(err.error.message),
         Text(err.error.message.text)),
    When(IsPlainObject(err) /\ err.data.type = "object" /\ IsString(err.data.message),
         Text(err.data.message.text)),
    When(IsPlainObject(err) /\ IsString(err.shortMessage), Text(err.shortMessage.text)),
    When(IsPlainObject(err) /\ err.code = Num(4001), Text("Transaction rejected by user")),
    When(IsPlainObject(err) /\ err.code = Num(-32000), Text("Transaction failed (insufficient funds or gas)")),
    When(IsPlainObject(err) /\ err.code = Num(-32603), Text("Internal JSON-RPC error"))>>

StringSource(err) == <<When(IsNonEmptyString(err), Text(err.text))>>

FormatReturned == formatted # <<>> /\ formatted.result # None

\* the two wallet rejections the claim names
RejectionExamples ==
  LET err == formatted.err
  IN IsPlainObject(err) =>
       /\ (err.code = Num(4001) /\ IsNonEmptyString(err.message)) =>
             formatted.result[1] = Text(err.message.text)
       /\ (err.code = Num(4001) /\ \A v \in {err.message, err.reason, err.error, err.data, err.shortMessage} : v = Absent) =>
             formatted.result[1] = Text("Transaction rejected by user")

(* C24: formatError returns the first of: the message of an Error instance; an object's
   non-empty message; its non-empty reason; its error.message; its data.message; its
   shortMessage; the fixed text for code 4001, -32000 or -32603; the JSON text of the
   object; a non-empty string error itself; and otherwise the fallback. *)
C24_FixedPrecedence ==
  FormatReturned =>
    LET err == formatted.err
    IN /\ formatted.result[1] =
            FirstOf(<<When(err.type = "Error", Text(err.message.text))>>
                    \o ObjectSources(err)
                    \o <<When(IsPlainObject(err), JsonText(err))>>
                    \o StringSource(err), Text(formatted.fallback))
       /\ RejectionExamples

(* C24 as amended: an Error instance yields its message, or the fallback when the
   message is empty, and nothing else of it is read; the JSON text of an object is
   returned only if JSON.stringify produces it and it is not '{}'; the rest of the order
   is as claimed. *)
C24_PrecedenceWithFallbacks ==
  FormatReturned =>
    LET err == formatted.err
    IN /\ formatted.result[1] =
            FirstOf(<<When(err.type = "Error" /\ err.message.text # "", Text(err.message.text)),
                      When(err.type = "Error", Text(formatted.fallback))>>
                    \o ObjectSources(err)
                    \o <<When(IsPlainObject(err) /\ ~err.circular /\ HasJsonProperty(err), JsonText(err))>>
                    \o StringSource(err), Text(formatted.fallback))
       /\ RejectionExamples

\* a wallet rejection with code 4001 and a message
C24_Witness ==
  /\ FormatReturned /\ IsPlainObject(formatted.err)
  /\ formatted.err.code = Num(4001) /\ formatted.err.message = Str("message")
  /\ formatted.result[1] = Text("message")

RoleHandlers ==
  {"handleConfigureRole", "handleScopeTarget", "handleAddAnother", "handleRevoke", "handleChangeMember"}

\* this step ends a handler in its catch block
Thrown == \E h \in op.pending \ op'.pending : ui'.status = "error"

(* C25: a step in which a handler ends with an exception leaves the stored member lists
   and target-scoped flags as they were; the storage changes only in a step in which
   configureSwapRole, scopeSwapTarget, assignSwapRoleMember, revokeSwapRole or
   changeSwapRoleMember has handed its Safe transaction over and got the hash back. *)
C25_StorageKeptOnThrow ==
  [][/\ Thrown => storage' = storage
     /\ storage' # storage =>
           \E name \in RoleHandlers : \E h \in Succeeded(name) :
             /\ safeTxs' # <<>>
             /\ \A i \in DOMAIN safeTxs' : safeTxs'[i].to = h.rolesAddress[1]]_vars

\* a member-management call has thrown and the member that was stored is still stored
C25_Witness ==
  /\ ui # None /\ ui.status = "error" /\ ui.step = "done" /\ ui.rolesAddress # None
  /\ loadRoleMembers(ui.rolesAddress[1]) # <<>> /\ loadTargetScoped(ui.rolesAddress[1])
  /\ op.pending = {}

-----------------------------------------------------------------------------
(* roles.ts: the stored member lists under any sequence of saveRoleMember and
   removeRoleMember calls *)

\* modifier addresses as callers pass them: two spellings of one address, and another
StoreModifiers == {<<"0","x","f","a">>, <<"0","x","F","a">>, <<"0","x","f","b">>}

\* member addresses as callers pass them
StoreMembers == {aLow, aUp, aBad, cLow, <<"0","x","C","d">>, <<"0","x","e","1">>}

\* localStorage without a key: loadRoleMembers answers [] for a missing key
InitStore ==
  /\ InitCli /\ argv = <<>> /\ call = None
  /\ ui = None /\ chain = None /\ op = None /\ safeTxs = <<>>
  /\ NoCalls
  /\ storage = [members |-> [r \in StoreModifiers |-> <<>>], scoped |-> {}]

StoreRest == <<walletFile, configFile, poolsFile, last, argv, call, ui, chain, safeTxs, libCalls>>

StoreCall(name, rolesModifierAddress, member) ==
  [name |-> name, rolesModifierAddress |-> rolesModifierAddress, member |-> member]

saveRoleMember ==
  \E r \in StoreModifiers : \E member \in StoreMembers :
    /\ storage' = saveRoleMemberIn(storage, r, member)
    /\ op' = Some(StoreCall("saveRoleMember", r, member))
    /\ UNCHANGED StoreRest

removeRoleMember ==
  \E r \in StoreModifiers : \E member \in StoreMembers :
    /\ storage' = removeRoleMemberIn(storage, r, member)
    /\ op' = Some(StoreCall("removeRoleMember", r, member))
    /\ UNCHANGED StoreRest

NextStore == saveRoleMember \/ removeRoleMember

SpecStore == InitStore /\ [][NextStore]_vars

\* the lists hold lower-cased addresses, each at most once
StoredListsNormal ==
  \A r \in DOMAIN storage.members :
    LET list == storage.members[r]
    IN /\ \A i \in DOMAIN list : list[i] = toLowerCase(list[i])
       /\ \A i, j \in DOMAIN list : list[i] = list[j] => i = j

\* what the call of this step did to the lists
StoreStep ==
  (op' # op /\ op' # None) =>
    LET c == op'[1]
        before == loadRoleMembersIn(storage, c.rolesModifierAddress)
        after == loadRoleMembersIn(storage', c.rolesModifierAddress)
        present == \E i \in DOMAIN before : SameAddress(before[i], c.member)
    IN /\ c.name = "saveRoleMember" =>
            /\ present => after = before
            /\ ~present => after = Append(before, toLowerCase(c.member))
       /\ c.name = "removeRoleMember" =>
            /\ \A i \in DOMAIN after : ~SameAddress(after[i], c.member)
            /\ after = SelectSeq(before, LAMBDA m : ~SameAddress(m, c.member))
       /\ \A r \in StoreModifiers :
            IF SameAddress(r, c.rolesModifierAddress)
            THEN loadRoleMembersIn(storage', r) = after
            ELSE loadRoleMembersIn(storage', r) = loadRoleMembersIn(storage, r)
       /\ storage'.scoped = storage.scoped

(* C26: after any sequence of saveRoleMember and removeRoleMember calls every stored
   member list holds lower-cased addresses without duplicates; a save of an address
   that is present in any letter case leaves the list as it was, a remove in any
   letter case leaves the address absent, the lists of other modifiers are untouched,
   and the modifier address is matched whatever its letter case. *)
C26_MemberListsNormalised == []StoredListsNormal /\ [][StoreStep]_vars

\* an address was saved in another letter case than the stored one, under another
\* spelling of the modifier address, beside a second member
C26_Witness ==
  /\ op = Some(StoreCall("saveRoleMember", <<"0","x","F","a">>, aUp))
  /\ loadRoleMembers(<<"0","x","f","a">>) = <<cLow, aLow>>
  /\ loadRoleMembers(<<"0","x","f","b">>) = <<aLow>>

-----------------------------------------------------------------------------
(* PoolFinder.tsx, DeploySafe: the effect that checks for an existing Safe *)

MaxPredictions == 2

\* String.prototype.trim on the co-owner field
RECURSIVE trim(_)
trim(str) ==
  IF str = <<>> THEN str
  ELSE IF Head(str) = " " THEN trim(Tail(str))
  ELSE IF str[Len(str)] = " " THEN trim(SubSeq(str, 1, Len(str) - 1))
  ELSE str

\* what useAccount, useWalletClient and the two fields can hold
Accounts == {None, Some(aLow), Some(<<"0","x","e","1">>)}
WalletClients == {None, Some("transport")}
CoOwnerTexts == {<<>>, <<" ">>, cLow}
Thresholds == {1, 2}

\* the dependency list of the effect
Deps(p) == [walletClient |-> p.walletClient, address |-> p.address,
            coOwner |-> p.coOwner, threshold |-> p.threshold]

\* the owners array the effect builds
OwnersOf(deps) ==
  IF trim(deps.coOwner) # <<>> THEN <<deps.address[1], trim(deps.coOwner)>> ELSE <<deps.address[1]>>

\* predictSafeAddress: the address is determined by the owners and the threshold
predictSafeAddress(owners, threshold) == [owners |-> owners, threshold |-> threshold]

PredictOutcomes == {"deployed", "notDeployed", "throws"}

\* the effect body: nothing without a wallet client or an address, else one
\* prediction with its own cancelled flag
effectBody(deps) ==
  IF deps.walletClient = None \/ deps.address = None THEN {}
  ELSE {[deps |-> deps, cancelled |-> FALSE]}

\* the cleanup of the previous effect
cleanup(pending) == {[e EXCEPT !.cancelled = TRUE] : e \in pending}

InitPredict ==
  /\ InitCli /\ argv = <<>> /\ call = None
  /\ ui = None /\ chain = None /\ storage = None /\ op = None /\ safeTxs = <<>>
  /\ txCall = <<>> /\ reads = <<>> /\ procs = <<>> /\ route = <<>> /\ detect = <<>>
  /\ finder = <<>> /\ formatted = <<>>
  /\ \E a \in Accounts : \E w \in WalletClients :
       LET first == [walletClient |-> w, address |-> a, coOwner |-> <<>>, threshold |-> 1]
       IN predictor = [walletClient |-> w, address |-> a, coOwner |-> <<>>, threshold |-> 1,
                       existingSafe |-> None, checking |-> TRUE, pending |-> effectBody(first)]

PredictRest == <<walletFile, configFile, poolsFile, last, argv, call, ui, chain, storage, op, safeTxs,
                 txCall, reads, procs, route, detect, finder, formatted>>

\* a render with a changed dependency: the cleanup of the previous effect, then the effect
Rerender(next) ==
  /\ Deps(next) # Deps(predictor)
  /\ LET pending == cleanup(predictor.pending) \cup effectBody(Deps(next))
     IN /\ Cardinality(pending) <= MaxPredictions
        /\ predictor' = [next EXCEPT !.pending = pending]
  /\ UNCHANGED PredictRest

accountChanges == \E a \in Accounts : Rerender([predictor EXCEPT !.address = a])

walletClientChanges == \E w \in WalletClients : Rerender([predictor EXCEPT !.walletClient = w])

\* the two fields are rendered only while no existing Safe is shown
setCoOwner ==
  /\ predictor.existingSafe = None
  /\ \E text \in CoOwnerTexts : Rerender([predictor EXCEPT !.coOwner = text])

setThreshold ==
  /\ predictor.existingSafe = None
  /\ \E n \in Thresholds : Rerender([predictor EXCEPT !.threshold = n])

\* mutant: the callbacks do not look at the cancelled flag
predictionSettlesUnguarded(e, outcome) ==
  /\ predictor' = [predictor EXCEPT
        !.pending = @ \ {e},
        !.existingSafe = IF outcome = "deployed"
                         THEN Some(predictSafeAddress(OwnersOf(e.deps), e.deps.threshold))
                         ELSE None,
        !.checking = FALSE]
  /\ UNCHANGED PredictRest

\* the promise of one prediction settles: then / catch / finally
predictionSettles(e, outcome) ==
  /\ predictor' = [predictor EXCEPT
        !.pending = @ \ {e},
        !.existingSafe = IF e.cancelled THEN @
                         ELSE IF outcome = "deployed"
                         THEN Some(predictSafeAddress(OwnersOf(e.deps), e.deps.threshold))
                         ELSE None,
        !.checking = IF e.cancelled THEN @ ELSE FALSE]
  /\ UNCHANGED PredictRest

predictionEnds == \E e \in predictor.pending : \E outcome \in PredictOutcomes : predictionSettles(e, outcome)

NextPredict ==
  \/ accountChanges
  \/ walletClientChanges
  \/ setCoOwner
  \/ setThreshold
  \/ predictionEnds

SpecPredict == InitPredict /\ [][NextPredict]_vars

\* the predictions whose promise settles in this step
Settled ==
  {e \in predictor.pending : predictor'.pending = predictor.pending \ {e} /\ Deps(predictor') = Deps(predictor)}

\* at most one prediction is not cancelled, and it was started for the current inputs
OneLivePrediction ==
  \A e \in predictor.pending : ~e.cancelled => e.deps = Deps(predictor)

(* C27: a prediction that was superseded by a change of the owner, the co-owner or the
   threshold changes nothing when it completes; existingSafe is set only when the
   prediction started for the current inputs completes, to the address predicted for
   these inputs or to null, in whatever order the predictions complete. *)
C27_SupersededNeverApplied ==
  /\ []OneLivePrediction
  /\ [][/\ \A e \in Settled :
            IF e.cancelled
            THEN predictor'.existingSafe = predictor.existingSafe /\ predictor'.checking = predictor.checking
            ELSE /\ e.deps = Deps(predictor)
                 /\ predictor'.existingSafe \in
                      {None, Some(predictSafeAddress(OwnersOf(Deps(predictor)), predictor.threshold))}
        /\ predictor'.existingSafe # predictor.existingSafe => \E e \in Settled : ~e.cancelled]_vars

\* the current prediction has completed and found a Safe while a superseded one,
\* started for another owner, is still in flight
C27_Witness ==
  /\ predictor.existingSafe # None /\ predictor.address # None
  /\ predictor.existingSafe[1].owners[1] = predictor.address[1]
  /\ \E e \in predictor.pending : e.cancelled /\ e.deps.address # predictor.address

-----------------------------------------------------------------------------
(* Properties of swap: tokens without an address and an empty wallet *)

\* pool and swap commands, every swap command line of the operator, on a machine whose
\* wallet and configuration are in place
NextSwap ==
  /\ \/ RunPool
     \/ RunSwap
  /\ UNCHANGED <<call, ui, chain, storage, op, safeTxs, libCalls>>

SpecSwap == InitFee /\ [][NextSwap]_vars

\* the saved pool tokens that carry this symbol
SavedTokens(upper) ==
  {PoolsOf(poolsFile)[i].tokenA : i \in {k \in DOMAIN PoolsOf(poolsFile) : PoolsOf(poolsFile)[k].tokenA.symbol = upper}}
  \cup {PoolsOf(poolsFile)[i].tokenB : i \in {k \in DOMAIN PoolsOf(poolsFile) : PoolsOf(poolsFile)[k].tokenB.symbol = upper}}

\* the symbol is not in the known list and no saved pool gives it an address
Unresolvable(symbol) ==
  /\ Truthy(symbol)
  /\ toUpperCase(symbol) \notin {sWETH, sUSDC, sUNI}
  /\ \A token \in SavedTokens(toUpperCase(symbol)) : token.address = "unknown"

NothingSent == last'.exit = 1 /\ last'.sent = <<>> /\ Files' = Files

(* C28: swap sends no transaction and exits with code 1 when one of its two token
   symbols is neither a known token nor a saved pool token with an address (the address
   stored for an unknown symbol is "unknown"), and when the wallet's ETH balance is zero. *)
C28_NoSendWithoutTokenOrGas ==
  [][Ran(wSwap) =>
       LET a == swapArgs(argv')
       IN /\ (Unresolvable(a[1]) \/ Unresolvable(a[2])) => NothingSent /\ last'.rpc = <<>>
          /\ cmdSwapWith(a[1], a[2], a[3], a[4], 0) => NothingSent]_vars

\* a pool with the unlisted token FOO is saved, and a swap of FOO stopped at the token;
\* wallet and config are in place
C28_Witness ==
  /\ ~NoWalletRecord /\ ~ConfigIncomplete
  /\ \E token \in SavedTokens(sFOO) : token.address = "unknown"
  /\ last.cmd = "swap" /\ last.out = <<"Unknown token:", sFOO>> /\ last.exit = 1 /\ last.sent = <<>>

-----------------------------------------------------------------------------
(* Properties of ConfigureRoles: one Safe operation at a time *)

\* disabled={isPending}: the buttons of the seven operations can be clicked
ButtonsEnabled == ~isPending

(* C29: while an operation started by one of the buttons is in flight the status is
   'pending' and the buttons are disabled, so that no second deploy, enable, configure,
   scope-target, revoke, change-member or add-member operation can be started and at
   most one is in flight. *)
C29_OneOperationInFlight ==
  /\ op.pending # {} => ~ButtonsEnabled
  /\ Cardinality(op.pending) <= 1

=============================================================================
